---- MODULE Spec2Model ----
(***************************************************************************)
(* Streaming pipeline of the live translator backend: the control plane   *)
(* (ws_handler), the recognition session (DeepgramSTT), the audio         *)
(* forwarding loop (send_audio_to_stt), the capture bridge                *)
(* (capture_audio) and the orchestrator (process_stt_output).             *)
(*                                                                         *)
(* All pipeline code runs on one asyncio event loop: a step of the model  *)
(* is the code a task runs between two suspension points.  The driver     *)
(* callback and the recognition service are the environment.              *)
(***************************************************************************)
EXTENDS Naturals, Sequences, FiniteSets, TLC

\* ---------------------------------------------------------------- bounds
NumChannels == 2        \* client channels that may connect
NumPipeChannels == 1    \* client channels that connect in SpecAudio and SpecOrch
MaxLoops == 2           \* task slots for DeepgramSTT._run
MaxFrames == 1          \* audio frames buffered ahead of the session
MaxRecords == 1         \* records waiting on the recognition-output queue
MaxUtterances == 1      \* utterances recognised in a run of SpecOrch
MaxHistUtterances == 12 \* utterances recognised in a run of SpecHistory
MaxFailUtterances == 3  \* utterances recognised in a run of SpecRecords
MaxWaitingRecords == 2  \* records waiting on the queue in a run of SpecRecords
MaxCaptureFrames == 103 \* audio frames buffered ahead of the session in SpecCapture
MaxSuggestions == 4     \* elements of a list the suggestion service answers with
MaxCycleUtterances == 2 \* utterances recognised in a run of SpecCycle

\* ------------------------------------------------------ program constants
MAX_HISTORY_LENGTH == 10
AUDIO_QUEUE_MAXSIZE == 100

Chan == 1..NumChannels
Slots == 1..MaxLoops

VARIABLES
    backend_processing_enabled, \* main.py global gate
    connected_clients,          \* main.py registry of channels
    transportOpen,              \* channels whose websocket is open
    app_settings,               \* main.py live configuration (keys overwritten)
    chanPc,                     \* per channel: where its ws_handler is suspended
    lastSend,                   \* the most recent send_backend_status call: targets, isActive
    stopLog,                    \* per channel: effects of its stop_processing teardown, in order
    cmdHist,                    \* the most recent control commands, for stop-then-start
    task,                       \* DeepgramSTT._task (0 = None, else a slot)
    loopPc,                     \* per slot: where that _run task is suspended
    cancelReq,                  \* per slot: task.cancel() was called and not yet delivered
    is_connected,               \* DeepgramSTT._is_connected
    connection_lock,            \* DeepgramSTT._connection_lock is held
    dg,                         \* transport of dg_connection: idle, starting, live
    openPending,                \* the service has yet to deliver its Open event
    loopback_q,                 \* capture_audio._loopback_q (driver handoff)
    capChunk,                   \* chunk capture_audio holds between get and put
    audio_queue,                \* audio_queue_global
    sendPc,                     \* where send_audio_to_stt is suspended
    sendFrame,                  \* frame whose transport send is in progress
    output_queue,               \* DeepgramSTT.output_queue
    orchPc,                     \* where process_stt_output is suspended
    item,                       \* record process_stt_output holds
    conversation_history,       \* main.py conversation_history
    bcasts,                     \* broadcasts made for the record in flight
    lastResult,                 \* the most recent result broadcast
    utter,                      \* utterances recognised so far
    capPc,                      \* where the capture_audio task is: created, running, exited
    loopback_stream,            \* capture_audio's loopback stream: none, open, started, closed
    mic_stream,                 \* capture_audio's microphone stream
    mainPc,                     \* where main() is suspended
    pipeCancel                  \* pipeline tasks cancelled by main() and not yet resumed

ctlVars == <<backend_processing_enabled, connected_clients, transportOpen, app_settings, chanPc,
             lastSend, stopLog, cmdHist>>
sttVars == <<task, loopPc, cancelReq, is_connected, connection_lock, dg, openPending>>
audioVars == <<loopback_q, capChunk, audio_queue, sendPc, sendFrame>>
orchVars == <<output_queue, orchPc, item, conversation_history, bcasts, lastResult, utter>>
lifeVars == <<capPc, loopback_stream, mic_stream, mainPc, pipeCancel>>
vars == <<ctlVars, sttVars, audioVars, orchVars, lifeVars>>

\* ---------------------------------------------------------------- helpers
NoFrame == [cap |-> FALSE, pre |-> FALSE, none |-> TRUE]
Frame(cap) == [cap |-> cap, pre |-> FALSE]
NoItem == [type |-> "none"]
NoStatus == [c \in Chan |-> "none"]
NoSend == [to |-> {}, val |-> FALSE, got |-> {}, last |-> NoStatus]
NoResult == [type |-> "none"]

\* dict.get(key, default)
Get(d, key, default) == IF key \in DOMAIN d THEN d[key] ELSE default

\* dict.setdefault(key, value) / d[key] = value, on a record
SetDefault(d, key, value) ==
    IF key \in DOMAIN d THEN d
    ELSE [k \in DOMAIN d \cup {key} |-> IF k = key THEN value ELSE d[k]]
SetKey(d, key, value) ==
    [k \in DOMAIN d \cup {key} |-> IF k = key THEN value ELSE d[k]]

Text(n) == IF n = 0 THEN "" ELSE "u" \o ToString(n)
English(t) == "en:" \o t

\* items already queued when a stop_processing command arrives
MarkPre(q) == [i \in 1..Len(q) |-> SetKey(q[i], "pre", TRUE)]
HasPre(q) == \E i \in 1..Len(q) : q[i].pre

AliveLoops == {s \in Slots : loopPc[s] \notin {"none", "done"}}
FreeSlot == CHOOSE s \in Slots : loopPc[s] = "none" /\ \A r \in Slots : loopPc[r] = "none" => s <= r

\* -------------------------------------------------- DeepgramSTT.start/stop
\* start() with the "if self._task is None" test left out
SttStartUnguarded ==
    /\ \E s \in Slots : loopPc[s] = "none"
    /\ task' = FreeSlot
    /\ loopPc' = [loopPc EXCEPT ![FreeSlot] = "created"]
    /\ cancelReq' = [cancelReq EXCEPT ![FreeSlot] = FALSE]

\* DeepgramSTT.start: create the _run task only when none is referenced
SttStart ==
    IF task = 0
    THEN /\ \E s \in Slots : loopPc[s] = "none"
         /\ task' = FreeSlot
         /\ loopPc' = [loopPc EXCEPT ![FreeSlot] = "created"]
         /\ cancelReq' = [cancelReq EXCEPT ![FreeSlot] = FALSE]
    ELSE UNCHANGED <<task, loopPc, cancelReq>>

\* -------------------------------------------------------- status messages
\* sends awaited one after the other, the first failure ending the broadcast
DeliveredUntilFailure(targets) ==
    {c \in targets : \A d \in targets : d <= c => d \in transportOpen}

\* the channels a message reaches: broadcast_to_all gathers every send with
\* return_exceptions=True (main.py 71-72), broadcast_to_one catches
\* ConnectionClosed (main.py 63-66); a send on a closed websocket fails
Delivered(targets) == targets \cap transportOpen

\* send_backend_status(websocket) / send_backend_status(): the message carries
\* the gate's value at the time of the call
IsActive(val) == IF val THEN "active" ELSE "inactive"

\* the isActive value of the backend_status most recently sent to each channel
LastStatus(targets, val) ==
    [c \in Chan |-> IF c \in targets THEN IsActive(val) ELSE lastSend.last[c]]

SendStatus(targets, val) ==
    lastSend' = [to |-> targets, val |-> val, got |-> Delivered(targets),
                 last |-> LastStatus(targets, val)]

\* the status broadcast of a stop_processing command carrying the value the
\* command gave the gate
StatusOfStop == FALSE

\* "isActive": backend_processing_enabled, read when send_backend_status is
\* called (main.py 88)
StatusAtCall == backend_processing_enabled

\* ------------------------------------------------------------- ws_handler
\* a handler that exits and leaves its channel in the registry
unregisterSkipped(clients, c) == clients

\* register(websocket): connected_clients.add(websocket) (main.py 54-56)
register(clients, c) == clients \cup {c}

\* unregister(websocket): connected_clients.remove(websocket) (main.py 58-60)
unregister(clients, c) == clients \ {c}

\* register + initial status (main.py 111-113)
Connect(c) ==
    /\ mainPc = "serving"
    /\ UNCHANGED lifeVars
    /\ chanPc[c] = "closed"
    /\ connected_clients' = register(connected_clients, c)
    /\ transportOpen' = transportOpen \cup {c}
    /\ chanPc' = [chanPc EXCEPT ![c] = "idle"]
    /\ lastSend' = [to |-> {c}, val |-> backend_processing_enabled, got |-> {c},
                    last |-> LastStatus({c}, backend_processing_enabled)]
    /\ UNCHANGED <<backend_processing_enabled, app_settings, stopLog, cmdHist>>
    /\ UNCHANGED <<sttVars, audioVars, orchVars>>

\* a connection that is lost before the initial status is sent (main.py
\* 111-113, 175-179): the handler registers, the send raises ConnectionClosed,
\* which broadcast_to_one catches; the receive loop ends at once and the
\* finally block unregisters
ConnectLost(c) ==
    /\ mainPc = "serving"
    /\ UNCHANGED lifeVars
    /\ chanPc[c] = "closed"
    /\ connected_clients' = unregister(register(connected_clients, c), c)
    /\ lastSend' = [to |-> {c}, val |-> backend_processing_enabled, got |-> {},
                    last |-> LastStatus({c}, backend_processing_enabled)]
    /\ UNCHANGED <<backend_processing_enabled, transportOpen, app_settings, chanPc, stopLog, cmdHist>>
    /\ UNCHANGED <<sttVars, audioVars, orchVars>>

\* the websocket of a connected channel closes (peer or network) while its
\* handler has yet to run again
TransportClose(c) ==
    /\ UNCHANGED lifeVars
    /\ chanPc[c] # "closed"
    /\ c \in transportOpen
    /\ transportOpen' = transportOpen \ {c}
    /\ UNCHANGED <<backend_processing_enabled, connected_clients, app_settings, chanPc,
                   lastSend, stopLog, cmdHist>>
    /\ UNCHANGED <<sttVars, audioVars, orchVars>>

\* the websocket is closed, the receive loop ends (ConnectionClosed) and the
\* finally block unregisters (main.py 175-179)
Disconnect(c) ==
    /\ UNCHANGED lifeVars
    /\ chanPc[c] = "idle"
    /\ transportOpen' = transportOpen \ {c}
    /\ connected_clients' = unregister(connected_clients, c)
    /\ chanPc' = [chanPc EXCEPT ![c] = "closed"]
    /\ stopLog' = [stopLog EXCEPT ![c] = <<>>]
    /\ UNCHANGED <<backend_processing_enabled, app_settings, lastSend, cmdHist>>
    /\ UNCHANGED <<sttVars, audioVars, orchVars>>

\* request_backend_status answered with a broadcast to every channel
RequestStatusToAll(c) ==
    /\ UNCHANGED lifeVars
    /\ chanPc[c] = "idle"
    /\ SendStatus(connected_clients, backend_processing_enabled)
    /\ cmdHist' = "status"
    /\ UNCHANGED <<backend_processing_enabled, connected_clients, transportOpen, app_settings, chanPc, stopLog>>
    /\ UNCHANGED <<sttVars, audioVars, orchVars>>

\* 'request_backend_status' (main.py 167-168)
RequestStatus(c) ==
    /\ UNCHANGED lifeVars
    /\ chanPc[c] = "idle"
    /\ SendStatus({c}, backend_processing_enabled)
    /\ cmdHist' = "status"
    /\ UNCHANGED <<backend_processing_enabled, connected_clients, transportOpen, app_settings, chanPc, stopLog>>
    /\ UNCHANGED <<sttVars, audioVars, orchVars>>

\* inbound messages other than the three commands above: text that is not
\* JSON, JSON that is not an object, an object without type or with an unknown
\* type, and 'settings' with its payload
MsgKinds == {"invalid_json", "not_object", "no_type", "unknown_type", "settings"}

\* shapes of the 'settings' payload: absent or falsy, a string, a number, a
\* list of pairs, an object
Payloads == {"absent", "text", "number", "pairs", "object"}

\* the messages of those kinds, each with its payload
Messages ==
    ((MsgKinds \ {"settings"}) \X {"absent"}) \cup ({"settings"} \X Payloads)

\* the keys a well-shaped payload carries
PayloadDict == [userName |-> "Ann"]

\* the configuration replaced by the payload
Replace(d, u) == u

\* dict.update(other)
Update(d, u) ==
    [k \in DOMAIN d \cup DOMAIN u |-> IF k \in DOMAIN u THEN u[k] ELSE d[k]]

\* what main.py 117-124 raises for a message: json.loads on invalid text,
\* data.get on a value that is not a dict, app_settings.update on a string or
\* a number
Raised(kind, payload) ==
    CASE kind = "invalid_json" -> "JSONDecodeError"
      [] kind = "not_object" -> "AttributeError"
      [] kind = "settings" /\ payload = "text" -> "ValueError"
      [] kind = "settings" /\ payload = "number" -> "TypeError"
      [] OTHER -> "none"

\* the handlers of the inner try with "except Exception" left out
CaughtJsonOnly(exc) == exc = "JSONDecodeError"

\* "except json.JSONDecodeError" and "except Exception" (main.py 171-174)
Caught(exc) ==
    exc = "JSONDecodeError" \/ exc \in {"AttributeError", "ValueError", "TypeError"}

\* one message handled by the receive loop (main.py 115-124, 169-179): an
\* exception the inner try does not catch leaves the loop and the finally
\* block unregisters the channel
HandleOther(c, kind, payload) ==
    /\ UNCHANGED lifeVars
    /\ chanPc[c] = "idle"
    /\ UNCHANGED <<backend_processing_enabled, lastSend>>
    /\ UNCHANGED <<sttVars, audioVars, orchVars>>
    /\ LET exc == Raised(kind, payload)
       IN  IF exc # "none" /\ ~Caught(exc)
           THEN /\ connected_clients' = unregister(connected_clients, c)
                /\ transportOpen' = transportOpen \ {c}
                /\ chanPc' = [chanPc EXCEPT ![c] = "closed"]
                /\ stopLog' = [stopLog EXCEPT ![c] = <<>>]
                /\ cmdHist' = "other"
                /\ UNCHANGED app_settings
           ELSE /\ app_settings' =
                     IF kind = "settings" /\ payload \in {"pairs", "object"}
                     THEN Update(app_settings, PayloadDict)
                     ELSE app_settings
                /\ cmdHist' = IF kind = "settings" /\ exc = "none" THEN "other" ELSE "ignored"
                /\ UNCHANGED <<connected_clients, transportOpen, chanPc, stopLog>>

\* the objects a 'settings' message may carry: a key of the defaults, a key
\* the defaults do not have, both, and two keys of the defaults
SettingsPayloads ==
    {[userName |-> "Ann"],
     [language |-> "fr"],
     [userName |-> "Ann", language |-> "fr"],
     [conversationContext |-> "work", userName |-> "Bob"]}

\* 'settings' with an object payload (main.py 120-124): the payload is merged
\* into app_settings and the handler returns to its receive loop
HandleSettings(c, new_settings) ==
    /\ UNCHANGED lifeVars
    /\ chanPc[c] = "idle"
    /\ app_settings' = Update(app_settings, new_settings)
    /\ cmdHist' = "other"
    /\ UNCHANGED <<backend_processing_enabled, connected_clients, transportOpen, chanPc,
                   lastSend, stopLog>>
    /\ UNCHANGED <<sttVars, audioVars, orchVars>>

\* a start_processing that begins a new conversation: the history is emptied
\* and the settings are reset when the gate opens
StartProcessingFresh(c) ==
    /\ UNCHANGED lifeVars
    /\ chanPc[c] = "idle"
    /\ IF ~backend_processing_enabled
       THEN /\ backend_processing_enabled' = TRUE
            /\ SttStart
            /\ SendStatus(connected_clients, TRUE)
            /\ conversation_history' = <<>>
            /\ app_settings' = [conversationContext |-> "default", userName |-> "User"]
       ELSE /\ SendStatus({c}, backend_processing_enabled)
            /\ UNCHANGED <<backend_processing_enabled, task, loopPc, cancelReq>>
            /\ UNCHANGED <<conversation_history, app_settings>>
    /\ cmdHist' = IF cmdHist \in {"stop_done", "stop_noop"} THEN "stop_start" ELSE "other"
    /\ UNCHANGED <<connected_clients, transportOpen, chanPc, stopLog>>
    /\ UNCHANGED <<is_connected, connection_lock, dg, openPending>>
    /\ UNCHANGED <<output_queue, orchPc, item, bcasts, lastResult, utter>>
    /\ UNCHANGED audioVars

\* 'start_processing' (main.py 126-136); start() has no suspension point, so the
\* branch runs as one step up to the broadcast
StartProcessing(c) ==
    /\ UNCHANGED lifeVars
    /\ chanPc[c] = "idle"
    /\ IF ~backend_processing_enabled
       THEN /\ backend_processing_enabled' = TRUE
            /\ SttStart
            /\ SendStatus(connected_clients, TRUE)
       ELSE /\ SendStatus({c}, backend_processing_enabled)
            /\ UNCHANGED <<backend_processing_enabled, task, loopPc, cancelReq>>
    /\ cmdHist' = IF cmdHist \in {"stop_done", "stop_noop"} THEN "stop_start" ELSE "other"
    /\ UNCHANGED <<connected_clients, transportOpen, app_settings, chanPc, stopLog>>
    /\ UNCHANGED <<is_connected, connection_lock, dg, openPending>>
    /\ UNCHANGED <<audioVars, orchVars>>

\* handlers whose stop_processing teardown is in progress
StopWaiters == {c \in Chan : chanPc[c] \in {"stop_wait", "stop_lock", "stop_disc"}}

\* clear_asyncio_queue(q)
clear_asyncio_queue(q) == <<>>

Done(s) == IF task = s THEN "done" ELSE "none"

\* what a completed stop_processing command leaves in cmdHist
StopHist(hist) == IF hist = "stop_running" THEN "stop_done" ELSE "other"

TeardownOrder == <<"gate", "session", "drain_audio", "drain_output", "status">>

\* main.py 148-162, run by the channels W whose stt.stop() has returned: drain
\* the audio queue, drain the recognition-output queue, broadcast the status
TeardownTail(W, by, val, logs, hist) ==
    /\ audio_queue' = clear_asyncio_queue(audio_queue)
    /\ output_queue' = clear_asyncio_queue(output_queue)
    /\ stopLog' = [x \in Chan |->
                     IF x \in W
                     THEN logs[x] \o <<"session", "drain_audio", "drain_output", "status">>
                     ELSE logs[x]]
    /\ SendStatus(connected_clients, val)
    /\ chanPc' = [x \in Chan |-> IF x \in W THEN "idle" ELSE chanPc[x]]
    /\ cmdHist' = StopHist(hist)

\* the teardown with the queues drained before the session is stopped
StopSuspendDrainFirst(W, first, logs, hist, aq, oq) ==
    /\ chanPc' = [x \in Chan |-> IF x \in W THEN "stop_wait" ELSE chanPc[x]]
    /\ stopLog' = [x \in Chan |->
                     IF x \in W THEN logs[x] \o <<"drain_audio", "drain_output">> ELSE logs[x]]
    /\ cmdHist' = hist
    /\ audio_queue' = clear_asyncio_queue(aq)
    /\ output_queue' = clear_asyncio_queue(oq)
    /\ UNCHANGED lastSend

\* stop() suspends in "await self._task" (stt.py 74-76)
StopSuspend(W, first, logs, hist, aq, oq) ==
    /\ chanPc' = [x \in Chan |-> IF x \in W THEN "stop_wait" ELSE chanPc[x]]
    /\ stopLog' = logs
    /\ cmdHist' = hist
    /\ audio_queue' = aq
    /\ output_queue' = oq
    /\ UNCHANGED lastSend

\* stop() suspends inside the explicit _disconnect (stt.py 83-85, 105-112):
\* `first` takes the lock and awaits finish() when the lock is free
StopToDisconnect(W, first, logs, hist, aq, oq) ==
    /\ chanPc' = [x \in Chan |->
                    IF x \in W
                    THEN (IF x = first /\ ~connection_lock THEN "stop_disc" ELSE "stop_lock")
                    ELSE chanPc[x]]
    /\ connection_lock' = TRUE
    /\ stopLog' = logs
    /\ cmdHist' = hist
    /\ audio_queue' = aq
    /\ output_queue' = oq
    /\ UNCHANGED lastSend

\* stt.py 77-85 once the awaited task has finished: _task = None, then the
\* explicit disconnect when the flag still says connected
AfterAwait(W, first, val, logs, hist, aq, oq) ==
    /\ loopPc' = [loopPc EXCEPT ![task] = "none"]
    /\ task' = 0
    /\ IF is_connected
       THEN StopToDisconnect(W, first, logs, hist, aq, oq)
       ELSE /\ TeardownTail(W, first, val, logs, hist)
            /\ UNCHANGED connection_lock

\* the stop_processing branch taken whatever the gate is
StopProcessingAlways(c) ==
    /\ UNCHANGED lifeVars
    /\ chanPc[c] = "idle"
    /\ backend_processing_enabled' = FALSE
    /\ LET logs == [stopLog EXCEPT ![c] = <<"gate">>]
           hist == IF StopWaiters = {} THEN "stop_running" ELSE "other"
           aq == MarkPre(audio_queue)
           oq == MarkPre(output_queue)
       IN  IF task = 0
           THEN /\ TeardownTail({c}, c, FALSE, logs, hist)
                /\ UNCHANGED <<task, loopPc, cancelReq, connection_lock>>
           ELSE IF loopPc[task] = "done"
           THEN /\ AfterAwait({c}, c, FALSE, logs, hist, aq, oq)
                /\ UNCHANGED cancelReq
           ELSE /\ cancelReq' = [cancelReq EXCEPT ![task] = TRUE]
                /\ StopSuspend({c}, c, logs, hist, aq, oq)
                /\ UNCHANGED <<task, loopPc, connection_lock>>
    /\ UNCHANGED <<connected_clients, transportOpen, app_settings, is_connected, dg, openPending>>
    /\ UNCHANGED <<loopback_q, capChunk, sendPc, sendFrame>>
    /\ UNCHANGED <<orchPc, item, conversation_history, bcasts, lastResult, utter>>

\* 'stop_processing' (main.py 138-165) up to its first suspension point
StopProcessing(c) ==
    /\ UNCHANGED lifeVars
    /\ chanPc[c] = "idle"
    /\ IF backend_processing_enabled
       THEN /\ backend_processing_enabled' = FALSE
            /\ LET logs == [stopLog EXCEPT ![c] = <<"gate">>]
                   hist == IF StopWaiters = {} THEN "stop_running" ELSE "other"
                   aq == MarkPre(audio_queue)
                   oq == MarkPre(output_queue)
               IN  IF task = 0
                   THEN /\ TeardownTail({c}, c, FALSE, logs, hist)
                        /\ UNCHANGED <<task, loopPc, cancelReq, connection_lock>>
                   ELSE IF loopPc[task] = "done"
                   THEN /\ AfterAwait({c}, c, FALSE, logs, hist, aq, oq)
                        /\ UNCHANGED cancelReq
                   ELSE /\ cancelReq' = [cancelReq EXCEPT ![task] = TRUE]
                        /\ StopSuspend({c}, c, logs, hist, aq, oq)
                        /\ UNCHANGED <<task, loopPc, connection_lock>>
       ELSE /\ SendStatus({c}, backend_processing_enabled)
            /\ cmdHist' = IF StopWaiters = {} THEN "stop_noop" ELSE "other"
            /\ audio_queue' = MarkPre(audio_queue)
            /\ output_queue' = MarkPre(output_queue)
            /\ UNCHANGED <<backend_processing_enabled, chanPc, stopLog>>
            /\ UNCHANGED <<task, loopPc, cancelReq, connection_lock>>
    /\ UNCHANGED <<connected_clients, transportOpen, app_settings, is_connected, dg, openPending>>
    /\ UNCHANGED <<loopback_q, capChunk, sendPc, sendFrame>>
    /\ UNCHANGED <<orchPc, item, conversation_history, bcasts, lastResult, utter>>

\* the awaited _run task has finished: every handler suspended in stop() resumes,
\* one after the other with nothing in between (done callbacks of one future)
StopWake ==
    /\ UNCHANGED lifeVars
    /\ task # 0
    /\ loopPc[task] = "done"
    /\ LET W == {c \in Chan : chanPc[c] = "stop_wait"}
       IN  /\ W # {}
           /\ \E first \in W :
                AfterAwait(W, first, StatusAtCall, stopLog, cmdHist,
                           audio_queue, output_queue)
    /\ UNCHANGED <<backend_processing_enabled, connected_clients, transportOpen, app_settings>>
    /\ UNCHANGED <<cancelReq, is_connected, dg, openPending>>
    /\ UNCHANGED <<loopback_q, capChunk, sendPc, sendFrame>>
    /\ UNCHANGED <<orchPc, item, conversation_history, bcasts, lastResult, utter>>

\* the handler resumes inside the explicit _disconnect (stt.py 105-119): it
\* enters the lock it waited for (107), or finish() has returned or raised
\* (112-117), stop() returns and the handler drains and broadcasts
StopDisconnected(c) ==
    /\ UNCHANGED lifeVars
    /\ chanPc[c] \in {"stop_lock", "stop_disc"}
    /\ IF chanPc[c] = "stop_lock"
       THEN /\ ~connection_lock
            /\ connection_lock' = TRUE
            /\ chanPc' = [chanPc EXCEPT ![c] = "stop_disc"]
            /\ UNCHANGED <<lastSend, stopLog, cmdHist, is_connected, dg, openPending,
                           audio_queue, output_queue>>
       ELSE /\ dg' = "idle"
            /\ openPending' = FALSE
            /\ is_connected' = FALSE
            /\ connection_lock' = FALSE
            /\ TeardownTail({c}, c, StatusAtCall, stopLog, cmdHist)
    /\ UNCHANGED <<backend_processing_enabled, connected_clients, transportOpen, app_settings>>
    /\ UNCHANGED <<task, loopPc, cancelReq>>
    /\ UNCHANGED <<loopback_q, capChunk, sendPc, sendFrame>>
    /\ UNCHANGED <<orchPc, item, conversation_history, bcasts, lastResult, utter>>

\* ------------------------------------------------------- DeepgramSTT._run
\* _connect (stt.py 89-96): take the lock, reset the flag, await start(options)
ConnectBegin ==
    /\ ~connection_lock
    /\ connection_lock' = TRUE
    /\ is_connected' = FALSE
    /\ dg' = "starting"
    /\ openPending' = FALSE

\* first step of the task: the initial connection attempt (stt.py 278)
LoopBegin(s) ==
    /\ UNCHANGED lifeVars
    /\ loopPc[s] = "created"
    /\ ~cancelReq[s]
    /\ ConnectBegin
    /\ loopPc' = [loopPc EXCEPT ![s] = "init_connect"]
    /\ UNCHANGED <<task, cancelReq>>
    /\ UNCHANGED <<ctlVars, audioVars, orchVars>>

\* a loop that only polls
NextSleepPollOnly(connected) == "poll"

\* the loop's test of the flag (stt.py 285): reconnect after 5 s, or poll again
NextSleep(connected) == IF connected THEN "poll" ELSE "backoff"

\* start(options) returns or raises (stt.py 96-103).  `opened`: the service's
\* Open event was delivered before start() returned
DgStartDone(s, ok, opened) ==
    /\ UNCHANGED lifeVars
    /\ loopPc[s] \in {"init_connect", "reconnect"}
    /\ ~cancelReq[s]
    /\ connection_lock' = FALSE
    /\ IF ok
       THEN /\ dg' = "live"
            /\ is_connected' = opened
            /\ openPending' = ~opened
            /\ loopPc' = [loopPc EXCEPT ![s] = NextSleep(opened)]
       ELSE /\ dg' = "idle"
            /\ is_connected' = FALSE
            /\ openPending' = FALSE
            /\ loopPc' = [loopPc EXCEPT ![s] =
                            IF loopPc[s] = "init_connect" THEN Done(s) ELSE "retry_sleep"]
    /\ UNCHANGED <<task, cancelReq>>
    /\ UNCHANGED <<ctlVars, audioVars, orchVars>>

\* a sleep of the loop ends (stt.py 290, 294) and the flag is tested again
LoopWake(s) ==
    /\ UNCHANGED lifeVars
    /\ loopPc[s] \in {"poll", "retry_sleep"}
    /\ ~cancelReq[s]
    /\ loopPc' = [loopPc EXCEPT ![s] = NextSleep(is_connected)]
    /\ UNCHANGED <<task, cancelReq, is_connected, connection_lock, dg, openPending>>
    /\ UNCHANGED <<ctlVars, audioVars, orchVars>>

\* the 5 s wait before reconnecting ends (stt.py 287-288): _connect is called
\* without testing the flag again
LoopReconnect(s) ==
    /\ UNCHANGED lifeVars
    /\ loopPc[s] = "backoff"
    /\ ~cancelReq[s]
    /\ ConnectBegin
    /\ loopPc' = [loopPc EXCEPT ![s] = "reconnect"]
    /\ UNCHANGED <<task, cancelReq>>
    /\ UNCHANGED <<ctlVars, audioVars, orchVars>>

\* CancelledError is delivered at the task's suspension point (stt.py 295-300).
\* `left`: what a cancelled start()/finish() leaves of the transport
LoopCancelled(s, left) ==
    /\ UNCHANGED lifeVars
    /\ cancelReq[s]
    /\ loopPc[s] \notin {"none", "done"}
    /\ cancelReq' = [cancelReq EXCEPT ![s] = FALSE]
    /\ CASE loopPc[s] = "created" ->
              /\ loopPc' = [loopPc EXCEPT ![s] = Done(s)]
              /\ left = dg
              /\ UNCHANGED <<is_connected, connection_lock, dg, openPending>>
         [] loopPc[s] = "init_connect" ->
              /\ loopPc' = [loopPc EXCEPT ![s] = Done(s)]
              /\ left \in {"idle", "live"}
              /\ connection_lock' = FALSE
              /\ dg' = left
              /\ openPending' = (left = "live")
              /\ UNCHANGED is_connected
         [] loopPc[s] \in {"poll", "backoff", "retry_sleep"} ->
              /\ ~connection_lock
              /\ left = dg
              /\ connection_lock' = TRUE
              /\ loopPc' = [loopPc EXCEPT ![s] = "cleanup"]
              /\ UNCHANGED <<is_connected, dg, openPending>>
         [] loopPc[s] = "reconnect" ->
              /\ left \in {"idle", "live"}
              /\ loopPc' = [loopPc EXCEPT ![s] = "cleanup"]
              /\ dg' = left
              /\ openPending' = (left = "live")
              /\ UNCHANGED <<is_connected, connection_lock>>
         [] loopPc[s] = "cleanup" ->
              /\ loopPc' = [loopPc EXCEPT ![s] = Done(s)]
              /\ connection_lock' = FALSE
              /\ left \in {"idle", "live"}
              /\ is_connected' = FALSE
              /\ dg' = left
              /\ openPending' = FALSE
    /\ UNCHANGED task
    /\ UNCHANGED <<ctlVars, audioVars, orchVars>>

\* _disconnect in the loop's finally block: finish() returns or raises
\* (stt.py 112-117), the task ends
LoopCleanupDone(s) ==
    /\ UNCHANGED lifeVars
    /\ loopPc[s] = "cleanup"
    /\ ~cancelReq[s]
    /\ dg' = "idle"
    /\ openPending' = FALSE
    /\ is_connected' = FALSE
    /\ connection_lock' = FALSE
    /\ loopPc' = [loopPc EXCEPT ![s] = Done(s)]
    /\ UNCHANGED <<task, cancelReq>>
    /\ UNCHANGED <<ctlVars, audioVars, orchVars>>

\* ------------------------------------------------ service events (stt.py)
\* _on_open (stt.py 151-155)
OnOpen ==
    /\ UNCHANGED lifeVars
    /\ dg = "live"
    /\ openPending
    /\ is_connected' = TRUE
    /\ openPending' = FALSE
    /\ UNCHANGED <<task, loopPc, cancelReq, connection_lock, dg>>
    /\ UNCHANGED <<ctlVars, audioVars, orchVars>>

\* _on_error (stt.py 264-267); a failed send (stt.py 139-143) has the same effect
OnError ==
    /\ UNCHANGED lifeVars
    /\ dg = "live"
    /\ is_connected
    /\ is_connected' = FALSE
    /\ UNCHANGED <<task, loopPc, cancelReq, connection_lock, dg, openPending>>
    /\ UNCHANGED <<ctlVars, audioVars, orchVars>>

\* _on_close (stt.py 269-272): the service closed the connection
OnClose ==
    /\ UNCHANGED lifeVars
    /\ dg = "live"
    /\ is_connected' = FALSE
    /\ dg' = "idle"
    /\ openPending' = FALSE
    /\ UNCHANGED <<task, loopPc, cancelReq, connection_lock>>
    /\ UNCHANGED <<ctlVars, audioVars, orchVars>>

\* ---------------------------------------------------- audio.py capture
FramesBuffered == Len(loopback_q) + Len(audio_queue) + (IF "none" \in DOMAIN capChunk THEN 0 ELSE 1)

\* a queue built without maxsize
HasRoomAlways(q) == TRUE

\* put() on asyncio.Queue(maxsize=100) goes through while the queue is not
\* full (main.py 348, audio.py 216)
HasRoom(q) == Len(q) < AUDIO_QUEUE_MAXSIZE

\* loopback_callback (audio.py 112-117): the driver thread hands a block over
LoopbackCallback(maxFrames) ==
    /\ loopback_stream = "started"
    /\ UNCHANGED lifeVars
    /\ FramesBuffered < maxFrames
    /\ loopback_q' = Append(loopback_q, Frame(backend_processing_enabled))
    /\ UNCHANGED <<capChunk, audio_queue, sendPc, sendFrame>>
    /\ UNCHANGED <<ctlVars, sttVars, orchVars>>

\* capture_audio's loop (audio.py 196-219): take a chunk from the handoff queue
\* and put it on the audio queue; put() suspends while the queue is full
CaptureStep ==
    /\ capPc = "running"
    /\ "capture" \notin pipeCancel
    /\ UNCHANGED lifeVars
    /\ "none" \in DOMAIN capChunk => loopback_q # <<>>
    /\ LET holding == "none" \notin DOMAIN capChunk
           chunk == IF holding THEN capChunk ELSE Head(loopback_q)
       IN  /\ holding => HasRoom(audio_queue)
           /\ loopback_q' = IF holding THEN loopback_q ELSE Tail(loopback_q)
           /\ IF HasRoom(audio_queue)
              THEN /\ audio_queue' = Append(audio_queue, chunk)
                   /\ capChunk' = NoFrame
              ELSE /\ capChunk' = chunk
                   /\ UNCHANGED audio_queue
    /\ UNCHANGED <<sendPc, sendFrame>>
    /\ UNCHANGED <<ctlVars, sttVars, orchVars>>

\* ------------------------------------------------ main.py send_audio_to_stt
\* the second test of the gate left out
ForwardGateOpen == TRUE

\* "if stt_c and backend_processing_enabled" (main.py 334)
ForwardGate == backend_processing_enabled

\* the loop passed the gate (main.py 326) and suspends in get() on an empty queue
SendWaitGet ==
    /\ "send" \notin pipeCancel
    /\ UNCHANGED lifeVars
    /\ sendPc = "top"
    /\ backend_processing_enabled
    /\ audio_queue = <<>>
    /\ sendPc' = "get"
    /\ UNCHANGED <<loopback_q, capChunk, audio_queue, sendFrame>>
    /\ UNCHANGED <<ctlVars, sttVars, orchVars>>

\* get() returns a frame (main.py 330-336); send_audio (stt.py 134-138) starts
\* the transport send when the session is connected, else drops the frame
SendDequeue ==
    /\ "send" \notin pipeCancel
    /\ UNCHANGED lifeVars
    /\ \/ sendPc = "get"
       \/ sendPc = "top" /\ backend_processing_enabled
    /\ audio_queue # <<>>
    /\ audio_queue' = Tail(audio_queue)
    /\ IF ForwardGate /\ is_connected
       THEN /\ sendPc' = "sending"
            /\ sendFrame' = SetKey(Head(audio_queue), "gate", backend_processing_enabled)
       ELSE /\ sendPc' = "top"
            /\ sendFrame' = NoFrame
    /\ UNCHANGED <<loopback_q, capChunk>>
    /\ UNCHANGED <<ctlVars, sttVars, orchVars>>

\* send_audio without its "except Exception" handler
SendFailureRaised == FALSE

\* "except Exception" around dg_connection.send (stt.py 139-143)
SendFailureCaught == TRUE

\* dg_connection.send returns or raises (stt.py 138-143); send_audio returns to
\* the loop of send_audio_to_stt
SendDone(ok) ==
    /\ "send" \notin pipeCancel
    /\ UNCHANGED lifeVars
    /\ sendPc = "sending"
    /\ sendPc' = IF ok \/ SendFailureCaught THEN "top" ELSE "raised"
    /\ sendFrame' = NoFrame
    /\ is_connected' = IF ok THEN is_connected ELSE FALSE
    /\ UNCHANGED <<task, loopPc, cancelReq, connection_lock, dg, openPending>>
    /\ UNCHANGED <<loopback_q, capChunk, audio_queue>>
    /\ UNCHANGED <<ctlVars, orchVars>>

\* --------------------------------------------- stt.py DeepgramSTT._on_message
\* Transcript events as the service sends them: `speaker` is the tag of the
\* first word, `missing` the attributes the payload lacks
Events == [shape : {"ok", "malformed"}, is_final : BOOLEAN, speech_final : BOOLEAN,
           has_text : BOOLEAN, speaker : {"1"}, missing : {{}}]

\* the attributes an event may lack
Attributes == {"transcript", "words", "is_final", "speech_final"}

\* events with no payload, with a payload that lacks type, channel or
\* alternatives ("malformed"), with an attribute whose use raises ("raises"),
\* and well-formed events with none, one or all of the attributes missing
SparseEvents ==
    [shape : {"absent", "malformed", "raises"}, is_final : {TRUE}, speech_final : {TRUE},
     has_text : {TRUE}, speaker : {"2"}, missing : {{}}]
    \cup
    [shape : {"ok"}, is_final : BOOLEAN, speech_final : BOOLEAN, has_text : BOOLEAN,
     speaker : {"1", "2"}, missing : {{}, Attributes} \cup {{a} : a \in Attributes}]

\* getattr(obj, name, default) (stt.py 202-207)
GetAttr(ev, name, default) == IF name \in ev.missing THEN default ELSE ev[name]

\* getattr(primary_alternative, 'transcript', '') for the n-th utterance (stt.py 202)
EventText(ev, n) ==
    IF "transcript" \in ev.missing \/ ~ev.has_text THEN "" ELSE Text(n)

\* speaker_id: 0, or the tag of the first word when there are words
\* (stt.py 216-220); a result without text has no words
SpeakerOfFirstWord(ev) ==
    IF "words" \in ev.missing \/ ~ev.has_text THEN "0" ELSE ev.speaker

\* _on_message without its except clauses
OnMessageCatchesNothing == FALSE

\* "except AttributeError" and "except Exception" of _on_message (stt.py 242-250)
OnMessageCatches == TRUE

\* the queueing test with the finality requirement left out
ShouldQueueAnyText(is_final, transcript, speech_final) ==
    transcript # "" \/ speech_final

\* the queueing test with every final result let through
ShouldQueueEveryFinal(is_final, transcript, speech_final) ==
    is_final

\* "if is_final and (transcript or speech_final)" (stt.py 224)
ShouldQueue(is_final, transcript, speech_final) ==
    is_final /\ (transcript # "" \/ speech_final)

\* the record put on the output queue (stt.py 226-235)
Record(ev, transcript) ==
    [type |-> "transcript_data", is_final |-> GetAttr(ev, "is_final", FALSE),
     speech_final |-> GetAttr(ev, "speech_final", FALSE), transcript |-> transcript,
     speaker_id |-> SpeakerOfFirstWord(ev), pre |-> FALSE]

\* a queue that hands out the newest record first
PutFirst(q, rec) == <<rec>> \o q

\* output_queue.put_nowait(data) on an asyncio.Queue (stt.py 235, main.py 38)
Put(q, rec) == Append(q, rec)

\* a Transcript event of the service; payloads that are absent or lack
\* type/channel/alternatives return early (stt.py 171-199)
OnMessage(ev, maxUtter, maxRec) ==
    /\ UNCHANGED lifeVars
    /\ dg = "live"
    /\ ~openPending
    /\ Len(output_queue) < maxRec
    /\ EventText(ev, utter + 1) # "" => utter < maxUtter
    /\ LET transcript == EventText(ev, utter + 1)
       IN  IF ev.shape = "ok" /\ ShouldQueue(GetAttr(ev, "is_final", FALSE), transcript,
                                             GetAttr(ev, "speech_final", FALSE))
           THEN /\ output_queue' = Put(output_queue, Record(ev, transcript))
                /\ utter' = IF transcript # "" THEN utter + 1 ELSE utter
           ELSE UNCHANGED <<output_queue, utter>>
    /\ dg' = IF ev.shape = "raises" /\ ~OnMessageCatches THEN "handler_raised" ELSE dg
    /\ UNCHANGED <<task, loopPc, cancelReq, is_connected, connection_lock, openPending>>
    /\ UNCHANGED <<orchPc, item, conversation_history, bcasts, lastResult>>
    /\ UNCHANGED <<ctlVars, audioVars>>

\* ------------------------------------------------ main.py process_stt_output
\* the fields of a queued record, without the model's bookkeeping mark
Payload(rec) == [k \in DOMAIN rec \ {"pre"} |-> rec[k]]

\* the item left without its default keys
WithoutDefaults(it) == it

\* item.setdefault(...) (main.py 210-212)
WithDefaults(it) ==
    SetDefault(SetDefault(SetDefault(it, "english", ""), "replies", <<>>),
               "detected_language", "")

\* the history append without the trim
AppendTurnNoTrim(h, turn) == Append(h, turn)

\* conversation_history.append(turn) and the trim (main.py 227-230)
AppendTurn(h, turn) ==
    LET a == Append(h, turn)
    IN  IF Len(a) > MAX_HISTORY_LENGTH THEN Tail(a) ELSE a

\* the translation written into the oldest turn
SetFirstEnglish(h, english) ==
    IF h = <<>> THEN h ELSE [h EXCEPT ![1] = SetKey(h[1], "english", english)]

\* conversation_history[-1]["english"] = english_translation (main.py 243-244)
SetLastEnglish(h, english) ==
    IF h = <<>> THEN h ELSE [h EXCEPT ![Len(h)] = SetKey(h[Len(h)], "english", english)]

\* a failed translation that leaves the item's defaults in place
TranslationFailedUnmarked(it) == it

\* translation failed (main.py 263-266)
TranslationFailed(it) ==
    SetKey(SetKey(SetKey(it, "english", "Translation Error"),
                  "detected_language", "error"), "replies", <<"Translation Failed">>)

\* the translation written over the text it was made from
TranslatedOverText(it, english) ==
    SetKey(SetKey(SetKey(it, "english", english), "detected_language", "XX"),
           "transcript", english)

\* translation succeeded (main.py 240-241)
Translated(it, english) ==
    SetKey(SetKey(it, "english", english), "detected_language", "XX")

\* an empty suggestion list handled as a failure
RepliesEmptyIsIssue(out) ==
    CASE out = "some" -> <<"suggestion 1", "suggestion 2">>
      [] out = "raise" -> <<"LLM Error">>
      [] OTHER -> <<"LLM Issue">>

\* a failed suggestion call handled as an empty list
RepliesFailureIsEmpty(out) ==
    CASE out = "some" -> <<"suggestion 1", "suggestion 2">>
      [] OTHER -> <<>>

\* what main.py makes of the suggestion call's outcome (main.py 246-261)
Replies(out) ==
    CASE out = "some" -> <<"suggestion 1", "suggestion 2">>
      [] out = "empty" -> <<>>
      [] out = "raise" -> <<"LLM Error">>
      [] OTHER -> <<"LLM Issue">>

\* the minimal item broadcast for non-final or foreign items (main.py 274-282)
RawItem(it) ==
    [type |-> Get(it, "type", "None"), is_final |-> Get(it, "is_final", FALSE),
     transcript |-> Get(it, "transcript", ""), detected_language |-> Get(it, "detected_language", ""),
     speaker |-> Get(it, "speaker", "None"),
     english |-> Get(it, "english", ""), replies |-> Get(it, "replies", <<>>)]

\* broadcast_to_all(item) (main.py 68-84, 287)
Broadcast(it, n) ==
    /\ lastResult' = it
    /\ bcasts' = n

\* translate_text returns (text, language), returns None (unpacking it raises
\* TypeError, main.py 233-237) or raises; every outcome but the first leaves
\* english_translation None
TranslateOutcomes == {"ok", "none", "raise"}

\* get_llm_suggestions returns a list, an empty list, None (llm.py 43-45,
\* 222-234) or raises
SuggestOutcomes == {"some", "empty", "none", "raise"}

BroadcastOutcomes == {"sent", "raise"}

\* the consume loop without its "except Exception" handler
OuterCatchesNothing == FALSE

\* "except Exception" of the consume loop (main.py 305-317) catches what the
\* body lets through
OuterCatches == TRUE

\* broadcast_to_all(it) as the n-th broadcast for the record, then the loop
\* goes on at pcAfter holding itemAfter; when the call raises, the handler of
\* the loop logs, marks the record done and sleeps (main.py 305-317)
BroadcastThen(bc, it, n, pcAfter, itemAfter) ==
    IF bc = "sent"
    THEN /\ Broadcast(it, n)
         /\ orchPc' = pcAfter
         /\ item' = itemAfter
    ELSE /\ orchPc' = IF OuterCatches THEN "recover" ELSE "finished"
         /\ item' = NoItem
         /\ bcasts' = n - 1
         /\ UNCHANGED lastResult

\* the consume loop without its gate test
DiscardsNothing == FALSE

\* "if not backend_processing_enabled: continue" (main.py 192-194)
Discards == ~backend_processing_enabled

\* get() returns a record (main.py 189-266): gate test, defaults, history
\* append, translation (translate_text never suspends); the step ends at the
\* await of the suggestion call or after the broadcast
OrchDequeue(tr, bc) ==
    /\ "process" \notin pipeCancel
    /\ UNCHANGED lifeVars
    /\ orchPc = "wait"
    /\ output_queue # <<>>
    /\ output_queue' = Tail(output_queue)
    /\ LET it == WithDefaults(Payload(Head(output_queue)))
           text == Get(it, "transcript", "")
           turn == [speaker |-> Get(it, "speaker", "Unknown Speaker"),
                    original |-> text, english |-> ""]
       IN  IF Discards
           THEN /\ tr = "ok"
                /\ bc = "sent"
                /\ item' = NoItem
                /\ bcasts' = 0
                /\ UNCHANGED <<orchPc, conversation_history, lastResult>>
           ELSE IF Get(it, "type", "") = "transcript_data" /\ Get(it, "is_final", FALSE)
           THEN IF text = ""
                THEN /\ tr = "ok"
                     /\ BroadcastThen(bc, it, 1, "wait", NoItem)
                     /\ UNCHANGED conversation_history
                ELSE IF tr = "ok"
                THEN /\ bc = "sent"
                     /\ conversation_history' =
                          SetLastEnglish(AppendTurn(conversation_history, turn), English(text))
                     /\ item' = Translated(it, English(text))
                     /\ orchPc' = "llm"
                     /\ bcasts' = 0
                     /\ UNCHANGED lastResult
                ELSE /\ conversation_history' = AppendTurn(conversation_history, turn)
                     /\ BroadcastThen(bc, TranslationFailed(it), 1, "wait", NoItem)
           ELSE /\ tr = "ok"
                /\ BroadcastThen(bc, RawItem(it), 1, "bcast", it)
                /\ UNCHANGED conversation_history
    /\ UNCHANGED utter
    /\ UNCHANGED <<ctlVars, sttVars, audioVars>>

\* the suggestion call returns (main.py 257-261), or the first of the two
\* broadcasts of a raw item is done (main.py 283); then the broadcast of the
\* item (main.py 287) whatever the gate is by now
OrchResume(out, bc) ==
    /\ "process" \notin pipeCancel
    /\ UNCHANGED lifeVars
    /\ orchPc \in {"llm", "bcast"}
    /\ IF orchPc = "llm"
       THEN BroadcastThen(bc, SetKey(item, "replies", Replies(out)), bcasts + 1, "wait", NoItem)
       ELSE /\ out = "empty"
            /\ BroadcastThen(bc, item, bcasts + 1, "wait", NoItem)
    /\ UNCHANGED <<output_queue, conversation_history, utter>>
    /\ UNCHANGED <<ctlVars, sttVars, audioVars>>

\* ------------------------------------------------ llm.py get_llm_suggestions
\* what a response of the suggestion service may be: no choice at all, empty
\* content, content that is not JSON, JSON that is neither an object nor a
\* list, an object, a list
ResponseKinds == {"no_choices", "empty", "unparsable", "scalar", "object", "list"}

\* what an object of the response may be: the current format, the legacy
\* format, an object lacking a key, a value that is not an object
ElementKinds == {"current", "legacy", "partial", "not_object"}

\* the responses: a kind and, for an object or a list, the kinds of its elements
Responses ==
    {[kind |-> k, elems |-> <<>>] : k \in ResponseKinds \ {"object", "list"}}
    \cup {[kind |-> "object", elems |-> <<e>>] : e \in ElementKinds \ {"not_object"}}
    \cup {[kind |-> "list", elems |-> es] :
             es \in UNION {[1..n -> ElementKinds] : n \in 0..MaxSuggestions}}

\* the i-th element of the parsed response
Element(kind, i) ==
    CASE kind = "current" -> [original |-> "o" \o ToString(i), english |-> "e" \o ToString(i)]
      [] kind = "legacy" -> [italian |-> "i" \o ToString(i), english |-> "e" \o ToString(i)]
      [] kind = "partial" -> [english |-> "e" \o ToString(i)]
      [] OTHER -> [not_object |-> "x"]

\* json.loads(content), for content that parses to an object or a list
Parsed(resp) == [i \in 1..Len(resp.elems) |-> Element(resp.elems[i], i)]

\* isinstance(x, dict) and k1 in x and k2 in x
HasKeys(x, k1, k2) == "not_object" \notin DOMAIN x /\ k1 \in DOMAIN x /\ k2 \in DOMAIN x

\* {"original": x["italian"], "english": x["english"]} (llm.py 206, 214)
FromLegacy(x) == [original |-> x["italian"], english |-> x["english"]]

\* suggestions_list[:3] (llm.py 222)
FirstThree(l) == SubSeq(l, 1, IF Len(l) < 3 THEN Len(l) ELSE 3)

NoSuggestions == [ok |-> TRUE, list |-> <<>>]
ReturnsNone == [ok |-> FALSE, list |-> <<>>]

\* get_llm_suggestions from the response on (llm.py 177-234): `ok` is FALSE
\* when the function returns None
get_llm_suggestions(resp) ==
    LET parsed == Parsed(resp)
    IN  CASE resp.kind = "no_choices" -> ReturnsNone
          [] resp.kind = "empty" -> NoSuggestions
          [] resp.kind = "unparsable" -> ReturnsNone
          [] resp.kind = "scalar" -> NoSuggestions
          [] resp.kind = "object" ->
               IF HasKeys(parsed[1], "original", "english")
               THEN [ok |-> TRUE, list |-> FirstThree(parsed)]
               ELSE IF HasKeys(parsed[1], "italian", "english")
               THEN [ok |-> TRUE, list |-> FirstThree(<<FromLegacy(parsed[1])>>)]
               ELSE NoSuggestions
          [] OTHER ->
               IF \A i \in 1..Len(parsed) : HasKeys(parsed[i], "original", "english")
               THEN [ok |-> TRUE, list |-> FirstThree(parsed)]
               ELSE IF \A i \in 1..Len(parsed) : HasKeys(parsed[i], "italian", "english")
               THEN [ok |-> TRUE,
                     list |-> FirstThree([i \in 1..Len(parsed) |-> FromLegacy(parsed[i])])]
               ELSE NoSuggestions

\* json.dumps of the replies in the broadcast message (main.py 70)
Shown(list) == [i \in 1..Len(list) |-> list[i].original \o " / " \o list[i].english]

\* the suggestion call returns what get_llm_suggestions makes of the service's
\* response (main.py 246-261), then the item is broadcast (main.py 287)
OrchSuggested(resp) ==
    /\ "process" \notin pipeCancel
    /\ UNCHANGED lifeVars
    /\ orchPc = "llm"
    /\ LET suggestions == get_llm_suggestions(resp)
           replies == IF suggestions.ok THEN Shown(suggestions.list) ELSE <<"LLM Issue">>
       IN  BroadcastThen("sent", SetKey(item, "replies", replies), bcasts + 1, "wait", NoItem)
    /\ UNCHANGED <<output_queue, conversation_history, utter>>
    /\ UNCHANGED <<ctlVars, sttVars, audioVars>>

\* asyncio.sleep(0.1) of the handler returns and the loop starts over
\* (main.py 317, 185)
OrchRecover ==
    /\ "process" \notin pipeCancel
    /\ UNCHANGED lifeVars
    /\ orchPc = "recover"
    /\ orchPc' = "wait"
    /\ UNCHANGED <<output_queue, item, conversation_history, bcasts, lastResult, utter>>
    /\ UNCHANGED <<ctlVars, sttVars, audioVars>>

\* ----------------------------------------- audio.py capture_audio lifecycle
\* how opening the streams ends: no loopback device (audio.py 150-154), the
\* loopback stream cannot be opened (172-179), both streams started, no
\* microphone device (155-158, 180), the microphone stream cannot be opened
\* (181-188), or the first or the second start() raises (191-193)
CaptureOutcomes ==
    {"no_device", "loopback_fails", "started", "no_mic", "mic_fails",
     "start_fails", "mic_start_fails"}

\* a stream that is stopped and left open
StoppedOnly(st) == IF st = "none" THEN "none" ELSE "open"

\* "if stream: stream.stop(); stream.close()" of the finally block
\* (audio.py 226-231)
Closed(st) == IF st = "none" THEN "none" ELSE "closed"

\* first step of the capture task: look for the devices, open and start the
\* streams (audio.py 146-197); there is no suspension point before the loop
CaptureOpen(outcome) ==
    /\ capPc = "created"
    /\ "capture" \notin pipeCancel
    /\ LET lb == CASE outcome \in {"no_device", "loopback_fails"} -> "none"
                   [] outcome \in {"started", "no_mic", "mic_start_fails"} -> "started"
                   [] OTHER -> "open"
           mic == CASE outcome = "started" -> "started"
                    [] outcome \in {"start_fails", "mic_start_fails"} -> "open"
                    [] OTHER -> "none"
           runs == outcome \in {"started", "no_mic"}
       IN  /\ capPc' = IF runs THEN "running" ELSE "exited"
           /\ loopback_stream' = IF runs THEN lb ELSE Closed(lb)
           /\ mic_stream' = IF runs THEN mic ELSE Closed(mic)
    /\ UNCHANGED <<mainPc, pipeCancel>>
    /\ UNCHANGED <<ctlVars, sttVars, audioVars, orchVars>>

\* an exception inside the loop (audio.py 222-231)
CaptureFails ==
    /\ capPc = "running"
    /\ "capture" \notin pipeCancel
    /\ capPc' = "exited"
    /\ loopback_stream' = Closed(loopback_stream)
    /\ mic_stream' = Closed(mic_stream)
    /\ capChunk' = NoFrame
    /\ UNCHANGED <<loopback_q, audio_queue, sendPc, sendFrame>>
    /\ UNCHANGED <<mainPc, pipeCancel>>
    /\ UNCHANGED <<ctlVars, sttVars, orchVars>>

\* CancelledError is delivered to the capture task: before its first step the
\* task just ends; inside the loop, at wait_for(get) or at put, the except and
\* finally clauses run (audio.py 220-231)
CaptureCancelled ==
    /\ "capture" \in pipeCancel
    /\ capPc \in {"created", "running"}
    /\ capPc' = "exited"
    /\ loopback_stream' = IF capPc = "created" THEN loopback_stream ELSE Closed(loopback_stream)
    /\ mic_stream' = IF capPc = "created" THEN mic_stream ELSE Closed(mic_stream)
    /\ capChunk' = NoFrame
    /\ pipeCancel' = pipeCancel \ {"capture"}
    /\ UNCHANGED <<loopback_q, audio_queue, sendPc, sendFrame>>
    /\ UNCHANGED mainPc
    /\ UNCHANGED <<ctlVars, sttVars, orchVars>>

\* CancelledError is delivered to send_audio_to_stt at its sleep, its get() or
\* inside send_audio, which does not catch it (main.py 338-340, stt.py 139)
SendCancelled ==
    /\ "send" \in pipeCancel
    /\ sendPc \in {"top", "get", "sending"}
    /\ sendPc' = "exited"
    /\ sendFrame' = NoFrame
    /\ pipeCancel' = pipeCancel \ {"send"}
    /\ UNCHANGED <<loopback_q, capChunk, audio_queue>>
    /\ UNCHANGED <<capPc, loopback_stream, mic_stream, mainPc>>
    /\ UNCHANGED <<ctlVars, sttVars, orchVars>>

\* CancelledError is delivered to process_stt_output at its get(), inside the
\* suggestion call or a broadcast, or at the sleep of its handler
\* (main.py 293-304, 317)
OrchCancelled ==
    /\ "process" \in pipeCancel
    /\ orchPc \in {"wait", "llm", "bcast", "recover"}
    /\ orchPc' = "exited"
    /\ item' = NoItem
    /\ pipeCancel' = pipeCancel \ {"process"}
    /\ UNCHANGED <<output_queue, conversation_history, bcasts, lastResult, utter>>
    /\ UNCHANGED <<capPc, loopback_stream, mic_stream, mainPc>>
    /\ UNCHANGED <<ctlVars, sttVars, audioVars>>

\* ------------------------------------------------------ main.py main
PipelineTasks == {"capture", "send", "process"}

TaskDone(t) ==
    CASE t = "capture" -> capPc = "exited"
      [] t = "send" -> sendPc = "exited"
      [] OTHER -> orchPc = "exited"

\* the shutdown that leaves the orchestrator running
TasksToCancelButProcess == {t \in PipelineTasks \ {"process"} : ~TaskDone(t)}

\* "for task in running_tasks: if task and not task.done(): task.cancel()"
\* (main.py 395-397)
TasksToCancel == {t \in PipelineTasks : ~TaskDone(t)}

\* KeyboardInterrupt or CancelledError ends the gather (main.py 378-384); a
\* gather that is cancelled cancels the tasks it waits for (`propagate`). The
\* finally block closes the server and awaits wait_closed (main.py 385-391)
MainInterrupt(propagate) ==
    /\ mainPc = "serving"
    /\ mainPc' = "closing"
    /\ pipeCancel' = IF propagate THEN TasksToCancel ELSE pipeCancel
    /\ UNCHANGED <<capPc, loopback_stream, mic_stream>>
    /\ UNCHANGED <<ctlVars, sttVars, audioVars, orchVars>>

\* wait_closed returns once every connection handler has ended; the tasks
\* still running are cancelled and gathered (main.py 391-400)
MainCancelTasks ==
    /\ mainPc = "closing"
    /\ \A c \in Chan : chanPc[c] = "closed"
    /\ pipeCancel' = pipeCancel \cup TasksToCancel
    /\ mainPc' = "cancelling"
    /\ UNCHANGED <<capPc, loopback_stream, mic_stream>>
    /\ UNCHANGED <<ctlVars, sttVars, audioVars, orchVars>>

\* stop() once its task has finished (stt.py 77-85): _task = None, then the
\* explicit _disconnect when the flag still says connected
MainAfterAwait ==
    /\ loopPc' = [loopPc EXCEPT ![task] = "none"]
    /\ task' = 0
    /\ IF is_connected
       THEN /\ ~connection_lock
            /\ connection_lock' = TRUE
            /\ mainPc' = "stop_disc"
       ELSE /\ mainPc' = "done"
            /\ UNCHANGED connection_lock
    /\ UNCHANGED <<cancelReq, is_connected, dg, openPending>>

\* the gather of the cancelled tasks returns and main() calls stop() on the
\* session (main.py 400-406, stt.py 70-76)
MainStopSession ==
    /\ mainPc = "cancelling"
    /\ \A t \in PipelineTasks : TaskDone(t)
    /\ IF task = 0
       THEN /\ mainPc' = "done"
            /\ UNCHANGED sttVars
       ELSE IF loopPc[task] = "done"
       THEN MainAfterAwait
       ELSE /\ cancelReq' = [cancelReq EXCEPT ![task] = TRUE]
            /\ mainPc' = "stop_wait"
            /\ UNCHANGED <<task, loopPc, is_connected, connection_lock, dg, openPending>>
    /\ UNCHANGED <<capPc, loopback_stream, mic_stream, pipeCancel>>
    /\ UNCHANGED <<ctlVars, audioVars, orchVars>>

\* stop() resumes: the awaited task has finished (stt.py 76-85), or finish()
\* has returned or raised inside the explicit _disconnect (stt.py 112-117);
\* then main() reports the shutdown (main.py 408)
MainStopResume ==
    /\ mainPc \in {"stop_wait", "stop_disc"}
    /\ IF mainPc = "stop_wait"
       THEN /\ loopPc[task] = "done"
            /\ MainAfterAwait
       ELSE /\ dg' = "idle"
            /\ openPending' = FALSE
            /\ is_connected' = FALSE
            /\ connection_lock' = FALSE
            /\ mainPc' = "done"
            /\ UNCHANGED <<task, loopPc, cancelReq>>
    /\ UNCHANGED <<capPc, loopback_stream, mic_stream, pipeCancel>>
    /\ UNCHANGED <<ctlVars, audioVars, orchVars>>

\* ------------------------------------------------------- specifications
DefaultSettings == [conversationContext |-> "default", userName |-> "User"]

\* main() waits on its three pipeline tasks (main.py 378) and capture_audio
\* has opened and started both streams (audio.py 174-193)
LifeRunning ==
    /\ capPc = "running"
    /\ loopback_stream = "started"
    /\ mic_stream = "started"
    /\ mainPc = "serving"
    /\ pipeCancel = {}

\* main() has built the queues and the session, called start() and created the
\* three pipeline tasks (main.py 348-371); no channel is connected yet
InitPipeline ==
    /\ backend_processing_enabled = TRUE
    /\ connected_clients = {}
    /\ transportOpen = {}
    /\ app_settings = DefaultSettings
    /\ chanPc = [c \in Chan |-> "closed"]
    /\ lastSend = NoSend
    /\ stopLog = [c \in Chan |-> <<>>]
    /\ cmdHist = "other"
    /\ task = 1
    /\ loopPc = [s \in Slots |-> IF s = 1 THEN "created" ELSE "none"]
    /\ cancelReq = [s \in Slots |-> FALSE]
    /\ is_connected = FALSE
    /\ connection_lock = FALSE
    /\ dg = "idle"
    /\ openPending = FALSE
    /\ loopback_q = <<>>
    /\ capChunk = NoFrame
    /\ audio_queue = <<>>
    /\ sendPc = "top"
    /\ sendFrame = NoFrame
    /\ output_queue = <<>>
    /\ orchPc = "wait"
    /\ item = NoItem
    /\ conversation_history = <<>>
    /\ bcasts = 0
    /\ lastResult = NoResult
    /\ utter = 0

Init == LifeRunning /\ InitPipeline

\* main() has created the capture task, which has yet to run (main.py 369)
InitBoot ==
    /\ capPc = "created"
    /\ loopback_stream = "none"
    /\ mic_stream = "none"
    /\ mainPc = "serving"
    /\ pipeCancel = {}
    /\ InitPipeline

\* the control plane, with the channels in `chans` connecting
NextControl(chans) ==
    \/ \E c \in chans : Connect(c)
    \/ \E c \in chans : Disconnect(c)
    \/ \E c \in chans : RequestStatus(c)
    \/ \E c \in chans : StartProcessing(c)
    \/ \E c \in chans : StopProcessing(c)
    \/ StopWake
    \/ \E c \in chans : StopDisconnected(c)

\* settings messages and messages the handler cannot act on
NextMessages(chans) ==
    \E c \in chans, m \in Messages : HandleOther(c, m[1], m[2])

\* websockets closing under a handler that has yet to notice
NextTransport(chans) ==
    \E c \in chans : TransportClose(c)

\* the recognition session and the service behind it
NextSession ==
    \/ \E s \in Slots : LoopBegin(s)
    \/ \E s \in Slots, ok \in BOOLEAN, opened \in BOOLEAN : DgStartDone(s, ok, opened)
    \/ \E s \in Slots : LoopWake(s)
    \/ \E s \in Slots : LoopReconnect(s)
    \/ \E s \in Slots, left \in {"idle", "starting", "live"} : LoopCancelled(s, left)
    \/ \E s \in Slots : LoopCleanupDone(s)
    \/ OnOpen
    \/ OnError
    \/ OnClose

\* capture and forwarding of audio
NextAudio(maxFrames) ==
    \/ LoopbackCallback(maxFrames)
    \/ CaptureStep
    \/ SendWaitGet
    \/ SendDequeue
    \/ \E ok \in BOOLEAN : SendDone(ok)

\* recognition results and the orchestrator
NextOrch(maxUtter, maxRec) ==
    \/ \E ev \in Events : OnMessage(ev, maxUtter, maxRec)
    \/ \E tr \in TranslateOutcomes : OrchDequeue(tr, "sent")
    \/ \E out \in SuggestOutcomes : OrchResume(out, "sent")

\* a broadcast that raises, and the handler of the consume loop
NextOrchFailure ==
    \/ \E tr \in TranslateOutcomes : OrchDequeue(tr, "raise")
    \/ \E out \in SuggestOutcomes : OrchResume(out, "raise")
    \/ OrchRecover

Next ==
    \/ NextControl(Chan)
    \/ NextMessages(Chan)
    \/ NextTransport(Chan)
    \/ NextSession
    \/ NextAudio(MaxFrames)
    \/ NextOrch(MaxUtterances, MaxRecords)
    \/ NextOrchFailure

\* the whole pipeline
Spec == Init /\ [][Next]_vars

\* control plane and session alone: neither reads what the audio path or the
\* orchestrator write, except the flag a failed send clears as OnError does
SpecControl == Init /\ [][NextControl(Chan) \/ NextSession]_vars

\* the control plane with every kind of inbound message
SpecMessages == Init /\ [][NextControl(Chan) \/ NextMessages(Chan) \/ NextSession]_vars

\* the control plane with websockets that close while their channel is registered
SpecTransport == Init /\ [][NextControl(Chan) \/ NextTransport(Chan) \/ NextSession]_vars

PipeChan == 1..NumPipeChannels

\* control plane, session and audio path
SpecAudio == Init /\ [][NextControl(PipeChan) \/ NextSession \/ NextAudio(MaxFrames)]_vars

\* control plane, session and orchestrator
SpecOrch == Init /\ [][NextControl(PipeChan) \/ NextSession \/ NextOrch(MaxUtterances, MaxRecords)]_vars

\* the state once the first connection attempt has succeeded, the service has
\* opened the session and one channel has connected (LoopBegin, DgStartDone,
\* Connect)
InitOpen ==
    /\ LifeRunning
    /\ backend_processing_enabled = TRUE
    /\ connected_clients = {1}
    /\ transportOpen = {1}
    /\ app_settings = DefaultSettings
    /\ chanPc = [c \in Chan |-> IF c = 1 THEN "idle" ELSE "closed"]
    /\ lastSend = [to |-> {1}, val |-> TRUE, got |-> {1},
                   last |-> [c \in Chan |-> IF c = 1 THEN "active" ELSE "none"]]
    /\ stopLog = [c \in Chan |-> <<>>]
    /\ cmdHist = "other"
    /\ task = 1
    /\ loopPc = [s \in Slots |-> IF s = 1 THEN "poll" ELSE "none"]
    /\ cancelReq = [s \in Slots |-> FALSE]
    /\ is_connected = TRUE
    /\ connection_lock = FALSE
    /\ dg = "live"
    /\ openPending = FALSE
    /\ loopback_q = <<>>
    /\ capChunk = NoFrame
    /\ audio_queue = <<>>
    /\ sendPc = "top"
    /\ sendFrame = NoFrame
    /\ output_queue = <<>>
    /\ orchPc = "wait"
    /\ item = NoItem
    /\ conversation_history = <<>>
    /\ bcasts = 0
    /\ lastResult = NoResult
    /\ utter = 0

\* the orchestrator over a long conversation: the session stays open and the
\* gate stays open
SpecHistory == InitOpen /\ [][NextOrch(MaxHistUtterances, MaxRecords)]_vars

\* the orchestrator with records queueing up behind the one in flight and
\* with broadcasts that raise
SpecRecords == InitOpen /\ [][NextOrch(MaxFailUtterances, MaxWaitingRecords) \/ NextOrchFailure]_vars

\* the orchestrator fed with events of every shape
NextEvents(maxUtter, maxRec) ==
    \/ \E ev \in SparseEvents : OnMessage(ev, maxUtter, maxRec)
    \/ \E tr \in TranslateOutcomes : OrchDequeue(tr, "sent")
    \/ \E out \in SuggestOutcomes : OrchResume(out, "sent")

SpecEvents == InitOpen /\ [][NextEvents(MaxFailUtterances, MaxRecords)]_vars

\* the state once a channel's stop_processing has completed: the gate is
\* closed, no supervising loop is left, the queues are drained (StopProcessing,
\* LoopCancelled, LoopCleanupDone, StopWake from InitOpen)
InitStopped ==
    /\ LifeRunning
    /\ backend_processing_enabled = FALSE
    /\ connected_clients = {1}
    /\ transportOpen = {1}
    /\ app_settings = DefaultSettings
    /\ chanPc = [c \in Chan |-> IF c = 1 THEN "idle" ELSE "closed"]
    /\ lastSend = [to |-> {1}, val |-> FALSE, got |-> {1},
                   last |-> [c \in Chan |-> IF c = 1 THEN "inactive" ELSE "none"]]
    /\ stopLog = [c \in Chan |-> IF c = 1 THEN TeardownOrder ELSE <<>>]
    /\ cmdHist = "stop_done"
    /\ task = 0
    /\ loopPc = [s \in Slots |-> "none"]
    /\ cancelReq = [s \in Slots |-> FALSE]
    /\ is_connected = FALSE
    /\ connection_lock = FALSE
    /\ dg = "idle"
    /\ openPending = FALSE
    /\ loopback_q = <<>>
    /\ capChunk = NoFrame
    /\ audio_queue = <<>>
    /\ sendPc = "top"
    /\ sendFrame = NoFrame
    /\ output_queue = <<>>
    /\ orchPc = "wait"
    /\ item = NoItem
    /\ conversation_history = <<>>
    /\ bcasts = 0
    /\ lastResult = NoResult
    /\ utter = 0

\* capture and forwarding over a long run, with processing enabled and the
\* session open, or with processing stopped
SpecCapture == (InitOpen \/ InitStopped) /\ [][NextAudio(MaxCaptureFrames)]_vars

\* the capture task from its first step, and main() shutting the pipeline down
NextLifecycle ==
    \/ \E outcome \in CaptureOutcomes : CaptureOpen(outcome)
    \/ CaptureFails
    \/ CaptureCancelled
    \/ SendCancelled
    \/ OrchCancelled
    \/ \E propagate \in BOOLEAN : MainInterrupt(propagate)
    \/ MainCancelTasks
    \/ MainStopSession
    \/ MainStopResume
    \/ \E c \in PipeChan : Disconnect(c)

\* the event loop runs every task that is ready: a cancelled task resumes with
\* CancelledError, main() resumes when what it awaits is done, finish() returns
\* or raises, and the connections of a closed server end
FairShutdown ==
    /\ WF_vars(CaptureCancelled)
    /\ WF_vars(SendCancelled)
    /\ WF_vars(OrchCancelled)
    /\ WF_vars(MainCancelTasks)
    /\ WF_vars(MainStopSession)
    /\ WF_vars(MainStopResume)
    /\ WF_vars(\E c \in PipeChan : Disconnect(c))
    /\ WF_vars(\E s \in Slots, left \in {"idle", "starting", "live"} : LoopCancelled(s, left))
    /\ WF_vars(\E s \in Slots : LoopCleanupDone(s))

\* the results that are queued as a whole utterance: final, with text, ending
\* the utterance (stt.py 224)
SpokenEvents ==
    {ev \in Events : ev.shape = "ok" /\ ev.is_final /\ ev.has_text /\ ev.speech_final}

\* the orchestrator fed with whole utterances
NextSpoken ==
    \/ \E ev \in SpokenEvents : OnMessage(ev, MaxUtterances, MaxRecords)
    \/ \E tr \in TranslateOutcomes : OrchDequeue(tr, "sent")
    \/ \E out \in SuggestOutcomes : OrchResume(out, "sent")

\* control plane, session and the orchestrator fed with whole utterances
SpecDiscard == Init /\ [][NextControl(PipeChan) \/ NextSession \/ NextSpoken]_vars

\* whole utterances whose suggestion call gets every kind of response
NextSuggest ==
    \/ \E ev \in SpokenEvents : OnMessage(ev, MaxFailUtterances, MaxWaitingRecords)
    \/ \E tr \in TranslateOutcomes : OrchDequeue(tr, "sent")
    \/ \E resp \in Responses : OrchSuggested(resp)

SpecSuggest == InitOpen /\ [][NextSuggest]_vars

\* settings messages with an object payload
NextSettings(chans) ==
    \E c \in chans, new_settings \in SettingsPayloads : HandleSettings(c, new_settings)

\* the control plane with channels that come and go: clean closes, websockets
\* that close under their handler, connections lost before the first send
SpecRegistry ==
    Init /\ [][NextControl(Chan) \/ NextTransport(Chan) \/ NextSession
                \/ (\E c \in Chan : ConnectLost(c))]_vars

\* disable/enable cycles of one channel during a conversation, with settings
\* messages in between
NextCycle ==
    \/ \E c \in PipeChan : StartProcessing(c)
    \/ \E c \in PipeChan : StopProcessing(c)
    \/ StopWake
    \/ \E c \in PipeChan : StopDisconnected(c)
    \/ NextSession
    \/ \E ev \in SpokenEvents : OnMessage(ev, MaxCycleUtterances, MaxRecords)
    \/ \E tr \in TranslateOutcomes : OrchDequeue(tr, "sent")
    \/ \E out \in SuggestOutcomes : OrchResume(out, "sent")
    \/ NextSettings(PipeChan)

SpecCycle == InitOpen /\ [][NextCycle]_vars

\* settings messages arriving while the pipeline works or is stopped
SpecSettings ==
    /\ InitOpen \/ InitStopped
    /\ [][NextSettings(PipeChan) \/ NextAudio(MaxFrames) \/ NextSpoken
           \/ (\E c \in PipeChan : Connect(c))
           \/ (\E c \in PipeChan : Disconnect(c))
           \/ (\E c \in PipeChan : RequestStatus(c))]_vars

\* the pipeline from the start of its tasks to the end of main(), with
\* processing enabled or stopped
SpecShutdown ==
    /\ InitBoot \/ InitStopped
    /\ [][NextLifecycle \/ NextSession \/ NextAudio(MaxFrames) \/ NextSpoken]_vars
    /\ FairShutdown

\* the supervising loop of a session that is never stopped, and the service
NextSupervise ==
    \/ \E s \in Slots : LoopBegin(s)
    \/ \E s \in Slots, ok \in BOOLEAN, opened \in BOOLEAN : DgStartDone(s, ok, opened)
    \/ \E s \in Slots : LoopWake(s)
    \/ \E s \in Slots : LoopReconnect(s)
    \/ OnOpen
    \/ OnError
    \/ OnClose

\* the event loop runs every task that is ready: start() returns and the
\* sleeps of the loop end (stt.py 278, 287-294); the service accepts
\* connections again and again, and delivers its Open event within the 5 s the
\* loop sleeps before it connects anew
FairSupervise ==
    /\ WF_vars(\E s \in Slots : LoopBegin(s))
    /\ WF_vars(\E s \in Slots, ok \in BOOLEAN, opened \in BOOLEAN : DgStartDone(s, ok, opened))
    /\ WF_vars(\E s \in Slots : LoopWake(s))
    /\ WF_vars(\E s \in Slots : LoopReconnect(s))
    /\ SF_vars(\E s \in Slots, opened \in BOOLEAN : DgStartDone(s, TRUE, opened))
    /\ SF_vars(OnOpen)

\* a session that is started once and never stopped, with the audio path and
\* the orchestrator
SpecSupervise ==
    /\ Init
    /\ [][NextSupervise \/ NextAudio(MaxFrames) \/ NextOrch(MaxUtterances, MaxRecords)]_vars
    /\ FairSupervise

\* ------------------------------------------------------------ properties
IsPrefix(a, b) == Len(a) <= Len(b) /\ a = SubSeq(b, 1, Len(a))
Unmarked(q) == [i \in 1..Len(q) |-> Payload(q[i])]

\* loops that are running and have not been cancelled
RunningLoops == {s \in AliveLoops : ~cancelReq[s] /\ loopPc[s] # "cleanup"}

\* C1: the forwarding loop starts a transport send only in a state where
\* ProcessingEnabled is true; a frame it dequeues with the gate closed is dropped
ForwardOnlyWhileEnabled ==
    sendPc = "sending" => sendFrame.gate

\* C1 witness: a send begun with the gate open is still in flight when a
\* stop_processing has closed the gate
SendInFlightAcrossStop ==
    /\ sendPc = "sending"
    /\ sendFrame.gate
    /\ ~backend_processing_enabled

\* C2: no frame captured while ProcessingEnabled was false is ever forwarded
\* to the recognition session
NoDisabledFrameForwarded ==
    sendPc = "sending" => sendFrame.cap

\* a step in which the orchestrator broadcasts a result
BroadcastStep == lastResult' # lastResult \/ bcasts' > bcasts

\* C3: whenever a result is broadcast to connected channels, ProcessingEnabled
\* is true
NoBroadcastWhileGateClosed ==
    [][(BroadcastStep /\ connected_clients # {}) => backend_processing_enabled]_vars

\* C4: the history never holds more than MAX_HISTORY_LENGTH turns; an append
\* to a full history drops exactly the oldest turn, keeps the others in order
\* and puts the turn of the dequeued record last
HistoryBoundedFifo ==
    [][LET h == conversation_history
           g == conversation_history'
       IN  /\ Len(g) <= MAX_HISTORY_LENGTH
           /\ g # h =>
                /\ output_queue # <<>>
                /\ g[Len(g)].original = Head(output_queue).transcript
                /\ IF Len(h) = MAX_HISTORY_LENGTH
                   THEN /\ Len(g) = MAX_HISTORY_LENGTH
                        /\ \A i \in 1..(MAX_HISTORY_LENGTH - 1) : g[i] = h[i + 1]
                   ELSE /\ Len(g) = Len(h) + 1
                        /\ \A i \in 1..Len(h) : g[i] = h[i]]_vars

\* C4 witness: a full history whose oldest turn has been evicted
HistoryEvictedOldest ==
    /\ Len(conversation_history) = MAX_HISTORY_LENGTH
    /\ conversation_history[1].original = Text(2)
    /\ conversation_history[MAX_HISTORY_LENGTH].original = Text(MAX_HISTORY_LENGTH + 1)

OneSupervisingLoop ==
    /\ Cardinality(AliveLoops) <= 1
    /\ AliveLoops \subseteq {task}
    /\ is_connected => dg = "live"

\* C6 witness: start_processing was handled while another channel's
\* stop_processing still awaits the session's stop, and one loop is alive
StartDuringStop ==
    /\ \E c \in Chan : chanPc[c] = "stop_wait"
    /\ backend_processing_enabled
    /\ Cardinality(AliveLoops) = 1

\* C7: stop_processing handled while disabled changes no state and sends the
\* status to the requester only; handled while enabled it closes the gate
StopTwiceIdempotent ==
    [][\A c \in Chan :
         StopProcessing(c) =>
           IF backend_processing_enabled
           THEN ~backend_processing_enabled' /\ stopLog'[c] # <<>>
           ELSE /\ UNCHANGED <<backend_processing_enabled, connected_clients, transportOpen, app_settings,
                               chanPc, stopLog, sttVars>>
                /\ Unmarked(audio_queue') = Unmarked(audio_queue)
                /\ Unmarked(output_queue') = Unmarked(output_queue)
                /\ lastSend'.to = {c}
                /\ ~lastSend'.val]_vars

\* C7 witness: with every channel connected, a stop_processing arrived while
\* disabled and was answered to its sender alone
SecondStopAnswered ==
    /\ cmdHist = "stop_noop"
    /\ connected_clients = Chan
    /\ Cardinality(lastSend.to) = 1
    /\ ~lastSend.val
    /\ ~backend_processing_enabled

\* C8: the effects of a stop_processing teardown occur in the order gate,
\* session stop, audio drain, output drain, status broadcast: the step that
\* begins a teardown and suspends in the session's stop closes the gate and
\* neither drains a queue nor sends a status; the step that completes it
\* leaves both queues empty and broadcasts the status to all channels
TeardownInOrder ==
    [][\A c \in Chan :
         /\ IsPrefix(stopLog'[c], TeardownOrder)
         /\ chanPc'[c] \in {"stop_wait", "stop_lock", "stop_disc"} => stopLog'[c] = <<"gate">>
         /\ (stopLog'[c] # stopLog[c] /\ stopLog'[c] = <<"gate">>) =>
                /\ ~backend_processing_enabled'
                /\ Unmarked(audio_queue') = Unmarked(audio_queue)
                /\ Unmarked(output_queue') = Unmarked(output_queue)
                /\ lastSend' = lastSend
         /\ (stopLog'[c] # stopLog[c] /\ stopLog'[c] = TeardownOrder) =>
                /\ task' = 0 \/ ~is_connected'
                /\ audio_queue' = <<>>
                /\ output_queue' = <<>>
                /\ lastSend'.to = connected_clients
                /\ lastSend'.val = backend_processing_enabled']_vars

\* C8 witness: a handler has closed the gate and awaits the session's stop
\* while the audio queue still holds a frame
TeardownAwaitsSessionStop ==
    \E c \in Chan :
        /\ chanPc[c] = "stop_wait"
        /\ stopLog[c] = <<"gate">>
        /\ ~backend_processing_enabled
        /\ audio_queue # <<>>

\* C9: after stop_processing followed immediately by start_processing the gate
\* is open and neither queue holds an item enqueued before the stop
StopThenStartClean ==
    cmdHist = "stop_start" =>
        /\ backend_processing_enabled
        /\ ~HasPre(audio_queue)
        /\ ~HasPre(output_queue)

\* C10: start_processing handled while disabled opens the gate, leaves a
\* running supervising loop and broadcasts the status to all channels; handled
\* while enabled it changes no state and answers the requester only
StartReopensSession ==
    [][\A c \in Chan :
         StartProcessing(c) =>
           IF ~backend_processing_enabled
           THEN /\ backend_processing_enabled'
                /\ RunningLoops' # {}
                /\ lastSend'.to = connected_clients
                /\ lastSend'.val
           ELSE /\ UNCHANGED <<backend_processing_enabled, connected_clients, transportOpen, app_settings,
                               chanPc, stopLog, sttVars, audioVars, orchVars>>
                /\ lastSend'.to = {c}
                /\ lastSend'.val]_vars

\* C11: request_backend_status sends one backend_status message, to the
\* requester only, carrying the current gate, and changes neither the gate, the
\* registry, the session, the queues, the settings nor the history
StatusRequestOnlyReplies ==
    [][\A c \in Chan :
         RequestStatus(c) =>
           /\ lastSend'.to = {c}
           /\ lastSend'.val = backend_processing_enabled
           /\ UNCHANGED <<backend_processing_enabled, connected_clients, transportOpen, app_settings,
                          chanPc, stopLog, sttVars, audioVars, orchVars>>]_vars

\* C11 witness: with every channel connected and processing disabled, a status
\* request has been answered to its sender alone
StatusAnsweredWhileDisabled ==
    /\ cmdHist = "status"
    /\ connected_clients = Chan
    /\ Cardinality(lastSend.to) = 1
    /\ ~lastSend.val
    /\ ~backend_processing_enabled

\* a message the handler cannot act on
Malformed(kind, payload) ==
    kind # "settings" \/ payload \in {"text", "number"}

\* C12: a message that is not JSON, not an object, of unknown or missing type,
\* or with a wrongly shaped payload leaves the channel registered and in its
\* receive loop, and leaves the gate unchanged
MalformedMessageIgnored ==
    [][\A c \in Chan, m \in Messages :
         HandleOther(c, m[1], m[2]) =>
           /\ c \in connected_clients'
           /\ chanPc'[c] = "idle"
           /\ UNCHANGED backend_processing_enabled
           /\ Malformed(m[1], m[2]) => UNCHANGED app_settings]_vars

\* C12 witness: a malformed message was ignored while processing was disabled
\* and its channel is still in the receive loop
MalformedIgnoredWhileDisabled ==
    /\ cmdHist = "ignored"
    /\ ~backend_processing_enabled
    /\ \E c \in connected_clients : chanPc[c] = "idle"

\* C13: a status message sent to a set of channels reaches every one of them
\* whose websocket is open, whichever of the others fail
BroadcastReachesOpenChannels ==
    [][lastSend' # lastSend =>
         lastSend'.got = {c \in lastSend'.to : c \in transportOpen'}]_vars

\* C13 witness: a broadcast to every channel failed for one and reached another
BroadcastPartlyDelivered ==
    /\ lastSend.to = Chan
    /\ lastSend.got # {}
    /\ lastSend.got # lastSend.to

\* C14: translation succeeded and the suggestion call returned an empty list:
\* the item is broadcast with english holding the translation and replies the
\* empty list
EmptySuggestionsKept ==
    [][(orchPc = "llm" /\ OrchResume("empty", "sent")) =>
         /\ bcasts' = 1
         /\ lastResult'.transcript = item.transcript
         /\ lastResult'.english = English(item.transcript)
         /\ lastResult'.replies = <<>>]_vars

\* C14 witness: a translated result was broadcast with no replies
TranslatedWithoutReplies ==
    /\ bcasts = 1
    /\ Get(lastResult, "transcript", "") # ""
    /\ Get(lastResult, "english", "") = English(Get(lastResult, "transcript", ""))
    /\ Get(lastResult, "replies", <<"none">>) = <<>>

\* a final record with text is at the head of the queue and the gate is open
FinalTextAtHead ==
    /\ orchPc = "wait"
    /\ output_queue # <<>>
    /\ backend_processing_enabled
    /\ Head(output_queue).type = "transcript_data"
    /\ Head(output_queue).is_final
    /\ Head(output_queue).transcript # ""

\* C15: translation of a final record with text failed: the item is broadcast
\* with english "Translation Error", detected_language "error" and replies
\* ["Translation Failed"], and the orchestrator does not await the suggestion
\* call
TranslationFailureMarked ==
    [][\A tr \in TranslateOutcomes \ {"ok"} :
         (FinalTextAtHead /\ OrchDequeue(tr, "sent")) =>
           /\ orchPc' = "wait"
           /\ bcasts' = 1
           /\ lastResult'.transcript = Head(output_queue).transcript
           /\ lastResult'.english = "Translation Error"
           /\ lastResult'.detected_language = "error"
           /\ lastResult'.replies = <<"Translation Failed">>]_vars

\* C15 witness: a result marked as a translation failure was broadcast and the
\* orchestrator waits for the next record
TranslationFailureBroadcast ==
    /\ bcasts = 1
    /\ orchPc = "wait"
    /\ Get(lastResult, "detected_language", "") = "error"
    /\ Get(lastResult, "replies", <<>>) = <<"Translation Failed">>
    /\ Len(conversation_history) > 0

\* C16: translation succeeded and the suggestion call raised or returned None:
\* the item is broadcast with english holding the translation and replies
\* holding an error placeholder
SuggestionFailureMarked ==
    [][\A out \in {"none", "raise"} :
         (orchPc = "llm" /\ OrchResume(out, "sent")) =>
           /\ bcasts' = 1
           /\ lastResult'.english = English(item.transcript)
           /\ lastResult'.replies \in {<<"LLM Issue">>, <<"LLM Error">>}]_vars

\* C16 witness: a translated result was broadcast with an error placeholder as
\* its replies
TranslatedWithPlaceholder ==
    /\ bcasts = 1
    /\ Get(lastResult, "english", "") = English(Get(lastResult, "transcript", ""))
    /\ Get(lastResult, "replies", <<>>) \in {<<"LLM Issue">>, <<"LLM Error">>}

\* C17: the consume loop is never ended by a failure of translation, of the
\* suggestion call or of a broadcast: it is waiting for a record, processing
\* one, or about to start over
ConsumeLoopSurvives ==
    orchPc \in {"wait", "llm", "bcast", "recover"}

\* C17 witness: the translation of one record failed and its broadcast raised,
\* and the loop has since translated the next record
NextRecordProcessedAfterFailure ==
    /\ orchPc = "llm"
    /\ Len(conversation_history) >= 2
    /\ conversation_history[1].english = ""
    /\ conversation_history[2].english # ""
    /\ Get(lastResult, "type", "none") = "none"

\* the transcripts of the turns of h
Originals(h) == [i \in 1..Len(h) |-> h[i].original]

\* the transcripts of the records of q that carry text
WaitingTexts(q) ==
    LET HasText(rec) == rec.transcript # ""
        texts == SelectSeq(q, HasText)
    IN  [i \in 1..Len(texts) |-> texts[i].transcript]

\* the utterances first..last in the order they were recognised
Utterances(first, last) == [i \in 1..(last - first + 1) |-> Text(first + i - 1)]

\* history turns followed by the waiting records are the utterances in the
\* order they were recognised, and a record in flight is the newest turn
InArrivalOrder ==
    LET done == Originals(conversation_history)
        waiting == WaitingTexts(output_queue)
    IN  /\ done \o waiting = Utterances(utter - Len(done) - Len(waiting) + 1, utter)
        /\ orchPc = "llm" =>
             /\ done # <<>>
             /\ item.transcript = done[Len(done)]

\* C18: records are taken off the queue one at a time and in the order they
\* were put: a record is taken only when none is in flight, the history turns
\* followed by the waiting records are the utterances in recognition order, and
\* a result that carries text is that of the newest turn, ahead of every
\* waiting record
ProcessedInArrivalOrder ==
    /\ []InArrivalOrder
    /\ [][/\ (output_queue # <<>> /\ output_queue' = Tail(output_queue)) =>
               orchPc = "wait"
          /\ (BroadcastStep /\ Get(lastResult', "transcript", "") # "") =>
               lastResult'.transcript =
                 Text(utter' - Len(WaitingTexts(output_queue')))]_vars

\* C18 witness: the second utterance has been broadcast after the first while
\* the third waits on the queue
SecondResultWhileThirdWaits ==
    /\ Originals(conversation_history) = <<Text(1), Text(2)>>
    /\ Get(lastResult, "transcript", "") = Text(2)
    /\ WaitingTexts(output_queue) = <<Text(3)>>

\* C19: the transcript of a broadcast result is the transcript of the record
\* it was made from: the item in flight keeps the text of the record taken
\* off the queue, and a broadcast carries the text of the record just taken or
\* of the item in flight
TranscriptTextKept ==
    [][/\ (orchPc = "wait" /\ orchPc' \in {"llm", "bcast"}) =>
            item'.transcript = Head(output_queue).transcript
       /\ BroadcastStep =>
            lastResult'.transcript =
              IF orchPc = "wait" THEN Head(output_queue).transcript ELSE item.transcript]_vars

\* C19 witness: the second utterance has been translated, given suggestions
\* and broadcast under its own text
SecondResultUnderItsText ==
    /\ Get(lastResult, "transcript", "") = Text(2)
    /\ Get(lastResult, "english", "") = English(Text(2))
    /\ Get(lastResult, "replies", <<>>) # <<>>

\* C20: send_audio never raises to its caller: a transport send that fails
\* leaves the session disconnected and the caller back at the top of its loop,
\* and a transport send is started only while the session is connected
SendNeverRaises ==
    /\ [](sendPc # "raised")
    /\ [][/\ (sendPc = "sending" /\ SendDone(FALSE)) =>
               (~is_connected' /\ sendPc' = "top")
          /\ (sendPc # "sending" /\ sendPc' = "sending") => is_connected]_vars

\* C20 witness: the session the service still holds open has been marked
\* disconnected with no frame left to send, and the sending loop is back at the
\* top with the gate open
SendFailedLoopGoesOn ==
    /\ sendPc = "top"
    /\ sendFrame = NoFrame
    /\ audio_queue = <<>>
    /\ backend_processing_enabled
    /\ dg = "live"
    /\ ~openPending
    /\ ~is_connected

\* the session is down and its supervising loop is in the while loop
Dropped ==
    /\ ~is_connected
    /\ \E s \in Slots : loopPc[s] \in {"poll", "backoff", "reconnect", "retry_sleep"}

\* the supervising loop is inside _connect on behalf of a reconnect
Reconnecting ==
    /\ dg = "starting"
    /\ \E s \in Slots : loopPc[s] = "reconnect"

\* C21: a session that dropped while its supervising loop runs (error event,
\* close event or failed send) is eventually connecting again, and a session
\* that is connecting again is eventually open
SessionReopens ==
    /\ Dropped ~> Reconnecting
    /\ Reconnecting ~> is_connected

\* C21 witness: the loop found the session down, slept and is connecting anew
ReconnectUnderWay ==
    /\ Reconnecting
    /\ ~is_connected
    /\ connection_lock

\* a connect attempt of the supervising loop ends in failure
ConnectFailed ==
    /\ dg = "starting"
    /\ dg' = "idle"
    /\ \E s \in Slots : loopPc[s] \in {"init_connect", "reconnect"} /\ loopPc'[s] # loopPc[s]

\* C22: a failed connect attempt, the first one included, leaves the session
\* disconnected and its supervising loop alive, waiting to try again
FailedConnectRetried ==
    [][ConnectFailed =>
          /\ ~is_connected'
          /\ \E s \in Slots : loopPc'[s] = "retry_sleep"]_vars

\* a handler is inside the explicit _disconnect of stop()
ExplicitDisconnect == \E c \in Chan : chanPc[c] \in {"stop_disc", "stop_lock"}

\* C23: once the task stop() cancelled and awaited has finished, stop() makes
\* an explicit disconnect attempt whether or not the loop's cleanup has
\* disconnected already, and when stop() has returned no supervising loop is
\* left and the session is disconnected
StopDisconnectsExplicitly ==
    [][/\ (task # 0 /\ task' = 0) => ExplicitDisconnect'
       /\ \A c \in Chan :
            (chanPc[c] \in {"stop_wait", "stop_disc"} /\ chanPc'[c] = "idle") =>
              (task' = 0 /\ ~is_connected' /\ dg' = "idle")]_vars

\* C24: every record on the recognition-output queue is final and carries
\* text or the end-of-utterance flag
OnlyFinalRecordsQueued ==
    \A i \in 1..Len(output_queue) :
        /\ output_queue[i].is_final
        /\ output_queue[i].transcript # "" \/ output_queue[i].speech_final

\* C24 witness: an end-of-utterance marker without text waits on the queue
\* behind a final record with text that does not end the utterance
MarkerQueuedBehindText ==
    /\ Len(output_queue) = 2
    /\ output_queue[1].transcript # ""
    /\ ~output_queue[1].speech_final
    /\ output_queue[2].transcript = ""
    /\ output_queue[2].speech_final

\* the record most recently put on the queue
NewestRecord(q) == q[Len(q)]

\* C25: the handler of Transcript events never lets an exception out, never
\* touches the state of the session, and queues a record made from an event
\* with missing attributes with the defaults in their place
SparseEventTolerated ==
    /\ [](dg # "handler_raised")
    /\ [][Len(output_queue') > Len(output_queue) =>
            /\ UNCHANGED sttVars
            /\ \A ev \in SparseEvents :
                 OnMessage(ev, MaxFailUtterances, MaxRecords) =>
                   LET rec == NewestRecord(output_queue')
                   IN  /\ ev.shape = "ok"
                       /\ "is_final" \notin ev.missing
                       /\ "transcript" \in ev.missing => rec.transcript = ""
                       /\ "words" \in ev.missing => rec.speaker_id = "0"
                       /\ "speech_final" \in ev.missing => ~rec.speech_final]_vars

\* C25 witness: a record made from an event without transcript and without
\* words waits on the queue with the defaults in their place
DefaultsQueued ==
    /\ output_queue # <<>>
    /\ NewestRecord(output_queue).transcript = ""
    /\ NewestRecord(output_queue).speaker_id = "0"
    /\ NewestRecord(output_queue).speech_final
    /\ utter > 0

\* the record at the head of the queue is about to be processed as a final
\* record with text
TextRecordTaken ==
    /\ FinalTextAtHead
    /\ output_queue' = Tail(output_queue)
    /\ orchPc' = "llm"

\* C26: the speaker of a finalized segment is the tag of its first word in the
\* queued record, in the history turn appended for it and in the speaker field
\* of the message broadcast for it
SpeakerIsFirstWordTag ==
    [][/\ \A ev \in SparseEvents :
            (Len(output_queue') > Len(output_queue) /\ "words" \notin ev.missing /\ ev.has_text
             /\ OnMessage(ev, MaxFailUtterances, MaxRecords)) =>
              NewestRecord(output_queue').speaker_id = ev.speaker
       /\ TextRecordTaken =>
            conversation_history'[Len(conversation_history')].speaker
              = Head(output_queue).speaker_id
       /\ (orchPc = "llm" /\ BroadcastStep) =>
            Get(lastResult', "speaker", "None") = item.speaker_id]_vars

\* the capture loop holds a chunk it could not put
HoldingChunk == "none" \notin DOMAIN capChunk

BufferedFramesBounded ==
    ~backend_processing_enabled => FramesBuffered <= AUDIO_QUEUE_MAXSIZE + 1

\* C29: once the capture task has exited, however it exited, no stream it
\* opened is left open or running
StreamsClosedOnExit ==
    capPc = "exited" =>
        /\ loopback_stream \in {"none", "closed"}
        /\ mic_stream \in {"none", "closed"}

\* C29 witness: the capture task was cancelled by main() while both streams
\* ran, and has exited with both closed
CancelledCaptureClosedBoth ==
    /\ capPc = "exited"
    /\ loopback_stream = "closed"
    /\ mic_stream = "closed"
    /\ mainPc = "cancelling"

\* the three tasks have ended before stop() is called on the session
TasksAwaitedBeforeStop ==
    mainPc \in {"stop_wait", "stop_disc", "done"} =>
        /\ \A t \in PipelineTasks : TaskDone(t)
        /\ pipeCancel = {}

\* when the shutdown is reported, stop() has returned: no supervising loop
SessionStoppedBeforeDone ==
    mainPc = "done" => task = 0 /\ AliveLoops = {}

\* C30: when main() shuts down, the capture, forwarding and orchestrator tasks
\* have been cancelled and have ended before the session is stopped, the
\* session is stopped before the shutdown is reported, and a shutdown that
\* has begun is always reported
ShutdownCompletes ==
    /\ [](TasksAwaitedBeforeStop /\ SessionStoppedBeforeDone)
    /\ (mainPc = "closing") ~> (mainPc = "done")

\* C30 witness: the shutdown is reported with processing enabled, that is
\* after stop() awaited the session's task, and after the capture task closed
\* its stream
ShutdownReportedAfterCancelling ==
    /\ mainPc = "done"
    /\ backend_processing_enabled
    /\ loopback_stream = "closed"
    /\ orchPc = "exited"
    /\ sendPc = "exited"

\* no stop_processing command is between its first step and its broadcast
NoCommandInProgress == StopWaiters = {}

\* C31, at rest: once every control command has completed, the backend_status
\* most recently sent to each connected channel carries the current gate value
LastStatusIsCurrent ==
    NoCommandInProgress =>
        \A c \in connected_clients : lastSend.last[c] = IsActive(backend_processing_enabled)

\* C31, at a change: the step that changes the gate broadcasts the new value to
\* every connected channel, or leaves its handler inside the teardown
ChangeIsBroadcast ==
    backend_processing_enabled' # backend_processing_enabled =>
        \/ /\ lastSend'.to = connected_clients'
           /\ lastSend'.val = backend_processing_enabled'
        \/ StopWaiters' # {}

\* C31, at the end of a teardown: the handler that leaves it broadcasts the
\* current gate value to every connected channel
TeardownEndsWithBroadcast ==
    (\E c \in Chan : c \in StopWaiters /\ chanPc'[c] = "idle") =>
        /\ lastSend'.to = connected_clients'
        /\ lastSend'.val = backend_processing_enabled'

\* C31, at a connection: the channel has been sent the current status when its
\* handler starts to receive
NewChannelToldFirst ==
    \A c \in Chan :
        chanPc[c] = "closed" /\ chanPc'[c] # "closed" =>
            lastSend'.last[c] = IsActive(backend_processing_enabled')

\* C31: every change of the gate is followed by a backend_status broadcast to
\* all connected channels; once no control command is in progress the last
\* backend_status sent to each connected channel carries the current gate
\* value; a new channel is sent the current status before its messages are
\* handled
StatusKeptCurrent ==
    /\ []LastStatusIsCurrent
    /\ [][ChangeIsBroadcast /\ TeardownEndsWithBroadcast /\ NewChannelToldFirst]_vars

\* C31 witness: a stop_processing teardown has ended, processing has been
\* enabled again, and every channel was last told that processing is active
StoppedChannelToldActive ==
    /\ NoCommandInProgress
    /\ backend_processing_enabled
    /\ connected_clients = Chan
    /\ \E c \in Chan : stopLog[c] = TeardownOrder
    /\ \A c \in Chan : lastSend.last[c] = "active"

\* C32: a settings message overwrites in app_settings exactly the keys it
\* carries and leaves every other key as it was; the gate, the session, the
\* queues, the history and the messages sent are unchanged
SettingsOnlyMerged ==
    [][\A c \in Chan, u \in SettingsPayloads :
         HandleSettings(c, u) =>
           /\ DOMAIN app_settings' = DOMAIN app_settings \cup DOMAIN u
           /\ \A k \in DOMAIN u : app_settings'[k] = u[k]
           /\ \A k \in DOMAIN app_settings \ DOMAIN u : app_settings'[k] = app_settings[k]
           /\ UNCHANGED <<backend_processing_enabled, connected_clients, lastSend, lastResult, bcasts>>
           /\ UNCHANGED sttVars
           /\ UNCHANGED <<loopback_q, audio_queue, output_queue, conversation_history>>]_vars

\* C32 witness: two settings messages have been merged, a key of the first is
\* kept beside the key the second overwrote, while a frame, a record's turn and
\* the last status are in place
SettingsMergedTwice ==
    /\ DOMAIN app_settings = {"conversationContext", "userName", "language"}
    /\ app_settings["userName"] = "Bob"
    /\ app_settings["conversationContext"] = "work"
    /\ app_settings["language"] = "fr"
    /\ audio_queue # <<>>
    /\ conversation_history # <<>>
    /\ cmdHist = "other"

\* C33: a record the orchestrator dequeues while the gate is closed is dropped:
\* the history is unchanged, the loop is back at its get() without having
\* awaited a translation or a suggestion call, and nothing is broadcast
DisabledRecordDropped ==
    [][(/\ ~backend_processing_enabled
        /\ orchPc = "wait"
        /\ output_queue # <<>>
        /\ output_queue' = Tail(output_queue)
        /\ \E tr \in TranslateOutcomes : OrchDequeue(tr, "sent")) =>
         /\ UNCHANGED <<conversation_history, lastResult>>
         /\ bcasts' = 0
         /\ orchPc' = "wait"
         /\ item' = NoItem]_vars

\* C33 witness: an utterance was queued, stop_processing closed the gate and
\* still awaits the session's stop, and the record has left the queue without
\* a turn or a broadcast
RecordDroppedDuringStop ==
    /\ ~backend_processing_enabled
    /\ StopWaiters # {}
    /\ \A c \in Chan : stopLog[c] \in {<<>>, <<"gate">>}
    /\ utter >= 1
    /\ output_queue = <<>>
    /\ orchPc = "wait"
    /\ conversation_history = <<>>
    /\ lastResult = NoResult

\* the history the suggestion call is given holds, as its last turn, the turn
\* of the record in flight with its translation
SuggestionSeesTranslation ==
    orchPc = "llm" =>
        /\ conversation_history # <<>>
        /\ conversation_history[Len(conversation_history)].original = item.transcript
        /\ conversation_history[Len(conversation_history)].english = item.english
        /\ item.english = English(item.transcript)

\* a step that changes the history appends the turn of the dequeued record and
\* changes no other turn; the new turn holds the translation when translation
\* succeeded and an empty translated field when it failed
OnlyAppendedTurnTranslated ==
    LET h == conversation_history
        g == conversation_history'
        kept == IF Len(h) = MAX_HISTORY_LENGTH THEN Tail(h) ELSE h
    IN  g # h =>
          /\ orchPc = "wait"
          /\ output_queue # <<>>
          /\ Len(g) = Len(kept) + 1
          /\ \A i \in 1..Len(kept) : g[i] = kept[i]
          /\ g[Len(g)].original = Head(output_queue).transcript
          /\ g[Len(g)].english =
               IF orchPc' = "llm" THEN English(Head(output_queue).transcript) ELSE ""

\* C34: a successful translation is written into the turn appended for the
\* same record, no other turn is changed, replaced or added, also when the
\* append evicted the oldest turn; the history given to the suggestion call
\* holds the translation; a failed translation leaves the turn's translated
\* field empty
TranslationInPlace ==
    /\ []SuggestionSeesTranslation
    /\ [][OnlyAppendedTurnTranslated]_vars

\* C34 witness: the suggestion call is awaited for the record whose append
\* evicted the oldest turn; its turn is translated, and an earlier turn whose
\* translation failed still has an empty translated field
TranslatedAfterEviction ==
    /\ orchPc = "llm"
    /\ Len(conversation_history) = MAX_HISTORY_LENGTH
    /\ conversation_history[1].original = Text(2)
    /\ conversation_history[MAX_HISTORY_LENGTH].english = English(Text(MAX_HISTORY_LENGTH + 1))
    /\ \E i \in 1..(MAX_HISTORY_LENGTH - 1) : conversation_history[i].english = ""

\* a response without the structure asked for: anything but a list of objects
\* of the current or of the legacy format, or one such object
MalformedResponse(resp) ==
    \/ resp.kind \in {"no_choices", "unparsable", "scalar"}
    \/ /\ resp.kind \in {"object", "list"}
       /\ \E i \in 1..Len(resp.elems) : resp.elems[i] \in {"partial", "not_object"}
    \/ /\ resp.kind = "list"
       /\ \E i, j \in 1..Len(resp.elems) : resp.elems[i] # resp.elems[j]

\* C36: whatever the suggestion service answers, the suggestion call returns a
\* list of at most 3 items, and the empty list when the response is malformed
\* or lacks its structure
SuggestionsAlwaysList ==
    [][\A resp \in Responses :
         OrchSuggested(resp) =>
           /\ get_llm_suggestions(resp).ok
           /\ Len(get_llm_suggestions(resp).list) <= 3
           /\ MalformedResponse(resp) => get_llm_suggestions(resp).list = <<>>]_vars

\* the supervising loop leaves its 5 s wait and calls _connect
ReconnectAttempt ==
    \E s \in Slots : loopPc[s] = "backoff" /\ loopPc'[s] = "reconnect"

\* C35: the supervising loop calls _connect for a reconnect only on a session
\* that is not Open at that moment, also when the service's Open event arrived
\* during the wait before the attempt
ReconnectOnlyWhenClosed ==
    [][ReconnectAttempt => ~is_connected]_vars

\* the supervising loop ended by itself: its first connection attempt failed
\* (stt.py 278-280)
LoopGaveUp == task # 0 /\ loopPc[task] = "done"

\* C37: while the gate is open and no control command is in progress, a
\* supervising loop of the session is alive, however stop_processing and
\* start_processing of different channels interleave (a loop that ended by
\* itself after its first connection attempt failed is left aside)
LoopAliveWhileEnabled ==
    (backend_processing_enabled /\ NoCommandInProgress /\ ~LoopGaveUp) => AliveLoops # {}

\* a step of a stop_processing or of a start_processing command
CommandStep ==
    \/ \E c \in Chan : StartProcessing(c)
    \/ \E c \in Chan : StopProcessing(c)
    \/ StopWake
    \/ \E c \in Chan : StopDisconnected(c)

\* C38: no step of stop_processing or start_processing changes the
\* conversation history or the settings: the turns held before a
\* disable/enable cycle are held, in the same order, after it
CycleKeepsHistory ==
    [][CommandStep => UNCHANGED <<conversation_history, app_settings>>]_vars

\* C38 witness: start_processing has just followed a completed stop_processing
\* while the history holds two turns, in the order they were spoken, and the
\* settings hold a merged payload
CycleDoneWithTurns ==
    /\ cmdHist = "stop_start"
    /\ backend_processing_enabled
    /\ Len(conversation_history) = 2
    /\ conversation_history[1].original = Text(1)
    /\ conversation_history[2].original = Text(2)
    /\ app_settings # DefaultSettings

\* an end-of-utterance marker: a final transcript record with empty text
IsMarker(rec) ==
    /\ Get(rec, "type", "") = "transcript_data"
    /\ Get(rec, "is_final", FALSE)
    /\ Get(rec, "transcript", "") = ""

\* C39: a final record with empty text dequeued while the gate is open appends
\* no turn, is followed by no await of a translation or suggestion call, and is
\* broadcast once, with empty english and empty replies
MarkerOnlyBroadcast ==
    [][(/\ backend_processing_enabled
        /\ orchPc = "wait"
        /\ output_queue # <<>>
        /\ IsMarker(Head(output_queue))
        /\ \E tr \in TranslateOutcomes : OrchDequeue(tr, "sent")) =>
         /\ UNCHANGED conversation_history
         /\ orchPc' = "wait"
         /\ item' = NoItem
         /\ bcasts' = 1
         /\ Get(lastResult', "transcript", "missing") = ""
         /\ Get(lastResult', "english", "missing") = ""
         /\ Get(lastResult', "replies", <<"missing">>) = <<>>]_vars

\* C39 witness: the marker that followed a spoken segment has been broadcast,
\* empty, and the history holds the segment's turn only
MarkerBroadcastAfterText ==
    /\ orchPc = "wait"
    /\ bcasts = 1
    /\ IsMarker(lastResult)
    /\ Get(lastResult, "english", "missing") = ""
    /\ Get(lastResult, "replies", <<"missing">>) = <<>>
    /\ Len(conversation_history) = 1
    /\ utter >= 1

\* the registry holds the channels whose handler has not exited
RegistryMatchesHandlers ==
    connected_clients = {c \in Chan : chanPc[c] # "closed"}

\* a backend_status goes to registered channels only, or is the initial status
\* of the channel that connects in this step
TargetsRegistered ==
    lastSend' # lastSend =>
        \/ lastSend'.to \subseteq connected_clients
        \/ \E c \in Chan : chanPc[c] = "closed" /\ lastSend'.to = {c}

\* C40: a channel is registered from its registration until its handler exits,
\* whether it exits on a clean close, on a connection error or because the
\* initial status could not be sent; a channel whose handler has exited is not
\* a target of a later broadcast
RegisteredWhileHandled ==
    /\ []RegistryMatchesHandlers
    /\ [][TargetsRegistered]_vars

\* C40 witness: a connection was lost before its initial status could be sent,
\* its channel is not registered, and another channel is
LostChannelNotRegistered ==
    /\ \E c \in Chan :
         /\ lastSend.to = {c}
         /\ lastSend.got = {}
         /\ chanPc[c] = "closed"
         /\ c \notin connected_clients
    /\ connected_clients # {}

====
